---- MODULE Spec2Model ----
(***************************************************************************)
(* A model of the Panamax mirror engine: the verified downloader           *)
(* (src/src/download.rs) and the rustup channel synchronizer               *)
(* (src/src/rustup.rs).                                                    *)
(*                                                                         *)
(* Files are byte sequences; a byte is a small natural number.  The file   *)
(* system is a function from the paths that exist to their content.        *)
(* SHA-256 is modelled by a collision-free streaming accumulator over the  *)
(* bytes, and a hex digest by the accumulator's value.                     *)
(***************************************************************************)
EXTENDS Naturals, Sequences, FiniteSets, TLC

\* ------------------------------------------------------------------ bounds

\* Largest retry budget (mirror.retries) tried.
MaxRetries == 1
\* Longest response body and longest file, in chunks of one byte.
MaxBody == 2

Byte == 0 .. 1

RECURSIVE SeqsUpTo(_, _)
\* All sequences over S of length at most n.
SeqsUpTo(S, n) ==
    IF n = 0 THEN {<<>>}
    ELSE LET shorter == SeqsUpTo(S, n - 1)
         IN shorter \cup {Append(s, b) : s \in {t \in shorter : Len(t) = n - 1}, b \in S}

Bodies == SeqsUpTo(Byte, MaxBody)

None == "None"

\* Option<&str> of a digest: no digest, or Some(h).
NoHash == <<>>
Some(h) == <<h>>
is_some(o) == o # NoHash
unwrap(o) == o[1]

\* ------------------------------------------------------------ SHA-256

\* Sha256::new()
Sha256New == 0

\* sha256.write_all(chunk) for a chunk of one byte.
Sha256Write(h, b) == h * 3 + b + 1

RECURSIVE Sha256Of(_)
\* format!("{:x}", sha256.result()) after feeding every byte of s.
Sha256Of(s) ==
    IF s = <<>> THEN Sha256New
    ELSE Sha256Write(Sha256Of(SubSeq(s, 1, Len(s) - 1)), s[Len(s)])

\* ------------------------------------------------------- file system

\* path.exists()
Exists(f, path) == path \in DOMAIN f

\* append_to_path(path, suffix)
append_to_path(path, suffix) == path \o suffix

\* fs::write / File::create followed by the writes: path now holds bytes.
WriteFile(f, path, bytes) ==
    [q \in DOMAIN f \cup {path} |-> IF q = path THEN bytes ELSE f[q]]

\* fs::rename(from, to): to is replaced, from is gone.
Rename(f, from, to) ==
    [q \in (DOMAIN f \ {from}) \cup {to} |-> IF q = to THEN f[from] ELSE f[q]]

\* move_if_exists(from, to), when the rename itself does not fail.
move_if_exists(f, from, to) ==
    IF Exists(f, from) THEN Rename(f, from, to) ELSE f

\* ------------------------------------------------------------ errors

\* DownloadError kinds, and Ok.
Ok == "Ok"
ErrIo == "Io"
ErrDownload == "Download"
ErrMismatchedHash == "MismatchedHash"

is_err(r) == r # Ok

\* ------------------------------------------------- download decisions

\* A slip in the test: the force flag read the wrong way round.
SkipsDownloadForceInverted(f, path, force) == Exists(f, path) /\ force

\* download: `path.exists() && !force_download`
SkipsDownload(f, path, force) == Exists(f, path) /\ ~force

\* A slip in the test: the digest is not compared.
HashMatchesUnchecked(f_hash, h) == TRUE

\* one_download: `f_hash == h`
HashMatches(f_hash, h) == f_hash = h

\* download: the loop `for _ in 0..=retries` still has an iteration to run
\* after n iterations.
LoopContinues(n, budget) == n <= budget

\* A slip: the error kept in `res` is swallowed.
DownloadReturnOk(r) == Ok

\* download: `if res.is_err() { return res; } Ok(())`
DownloadReturn(r) == IF is_err(r) THEN r ELSE Ok

\* A slip in the test: the sidecar is written whatever download returned.
WritesSidecarAlways(r) == TRUE

\* download_with_sha256_file: `if res.is_err() { return res; }` is passed and
\* the sidecar is written.
WritesSidecar(r) == ~is_err(r)

\* download_with_sha256_file: `&sha256_data[..64]` panics on a shorter text.
\* A sidecar text is the digest followed by the rest of the line.
SidecarText(h) == <<h, 0>>
SidecarPanics(text) == Len(text) < 1
SidecarHash(text) == text[1]

\* ------------------------------------------- download, as one step

\* What one attempt meets: whether the GET, the creation of the staging file,
\* the reads and writes, and the rename succeed, and the bytes delivered
\* before the stream ended or failed.
Attempt(getOk, createOk, body, readOk, renameOk) ==
    [get_ok |-> getOk, create_ok |-> createOk, body |-> body, read_ok |-> readOk,
     rename_ok |-> renameOk]

\* An attempt of a call returns the file system it leaves and its result.
Returns(f, r) == [fs |-> f, res |-> r]

\* one_download(url, path, hash), meeting attempt a.
one_download(f, path, h, a) ==
    LET part_path == append_to_path(path, ".part")
        written == WriteFile(f, part_path, a.body)
        f_hash == IF is_some(h) THEN Sha256Of(a.body) ELSE Sha256New
    IN  IF ~a.get_ok THEN Returns(f, ErrDownload)
        ELSE IF ~a.create_ok THEN Returns(f, ErrIo)
        ELSE IF ~a.read_ok THEN Returns(written, ErrIo)
        ELSE IF is_some(h) /\ ~HashMatches(f_hash, unwrap(h))
             THEN Returns(written, ErrMismatchedHash)
        ELSE IF ~a.rename_ok THEN Returns(written, ErrIo)
        ELSE IF is_some(h) THEN Returns(move_if_exists(written, part_path, path), Ok)
        ELSE Returns(Rename(written, part_path, path), Ok)

RECURSIVE DownloadLoop(_, _, _, _, _, _, _)
\* download's loop after k iterations, `res` being r: attempts[k + 1] is met
\* next; `Ok(_) => break` leaves `res` as it is.
DownloadLoop(f, path, h, budget, k, r, attempts) ==
    IF ~LoopContinues(k, budget) THEN Returns(f, DownloadReturn(r))
    ELSE LET one == one_download(f, path, h, attempts[k + 1])
         IN  IF one.res = Ok THEN Returns(one.fs, DownloadReturn(r))
             ELSE DownloadLoop(one.fs, path, h, budget, k + 1, one.res, attempts)

\* download(url, path, hash, retries, force_download), meeting `attempts`.
download(f, path, h, budget, force, attempts) ==
    IF SkipsDownload(f, path, force) THEN Returns(f, Ok)
    ELSE DownloadLoop(f, path, h, budget, 0, Ok, attempts)

\* download_with_sha256_file(url, path, retries, force_download): `sidecar` is
\* what download_string answered (<<>>: an error, <<text>>: a text), and
\* writeOk whether the write of the sidecar succeeds.
download_with_sha256_file(f, path, budget, force, sidecar, attempts, writeOk) ==
    IF sidecar = <<>> THEN Returns(f, ErrDownload)
    ELSE IF SidecarPanics(sidecar[1]) THEN Returns(f, "Panic")
    ELSE LET got == download(f, path, Some(SidecarHash(sidecar[1])), budget, force, attempts)
         IN  IF ~WritesSidecar(got.res) THEN got
             ELSE IF ~writeOk THEN Returns(got.fs, ErrIo)
             ELSE Returns(WriteFile(got.fs, append_to_path(path, ".sha256"), sidecar[1]), Ok)

\* ------------------------------------------------- channel manifests

\* An upstream URL as `url.split('/')` sees it.
Url(date, file) == <<"https:", "", "static.rust-lang.org", "dist", date, file>>

RECURSIVE JoinSlash(_)
\* segments.join("/")
JoinSlash(segments) ==
    IF Len(segments) = 0 THEN ""
    ELSE IF Len(segments) = 1 THEN segments[1]
    ELSE segments[1] \o "/" \o JoinSlash(Tail(segments))

\* rustup_download_list: `url.split('/').collect::<Vec<&str>>()[3..].join("/")`
RelativePath(url) == JoinSlash(SubSeq(url, 4, Len(url)))

\* The bytes upstream serves for every artifact.
ArtifactBody == <<0, 1>>

\* struct TargetUrls of the artifact `stem` of a release.
TargetUrls(date, stem) ==
    [url |-> Url(date, stem \o ".tar.gz"), hash |-> Sha256Of(ArtifactBody),
     xz_url |-> Url(date, stem \o ".tar.xz"), xz_hash |-> Sha256Of(ArtifactBody)]

\* struct Target: `available` and the flattened Option<TargetUrls>.
TargetOf(available, urls) == [available |-> available, target_urls |-> urls]

\* An entry of Pkg.target, the HashMap in its iteration order: an available
\* target with its URLs, or (unavailable) `available = false` and no URLs.
TargetEntry(pkgName, date, platform, available) ==
    [name |-> platform,
     target |-> IF available
                THEN TargetOf(TRUE, <<TargetUrls(date, pkgName \o "-" \o platform)>>)
                ELSE TargetOf(FALSE, <<>>)]

\* An entry of Channel.pkg: the package name and its Pkg.target entries.
PkgEntry(pkgName, targets) == [name |-> pkgName, target |-> targets]

\* rustup_download_list: `.filter(|(pkg_name, _)| download_dev || pkg_name == "rustc-dev")`
KeepsPkg(downloadDev, pkgName) == downloadDev \/ pkgName = "rustc-dev"

\* rustup_download_list: the filter on the platform name.
KeepsTarget(plats, name) == name \in plats.unix \/ name \in plats.windows \/ name = "*"

\* rustup_download_list: the (relative path, hash) pairs of one Target.
TargetFiles(target) ==
    IF target.target_urls = <<>> THEN <<>>
    ELSE LET urls == target.target_urls[1]
         IN  << <<RelativePath(urls.url), urls.hash>>,
                <<RelativePath(urls.xz_url), urls.xz_hash>> >>

RECURSIVE TargetsFiles(_, _)
\* rustup_download_list: the inner flat_map over the entries of pkg.target.
TargetsFiles(targets, plats) ==
    IF targets = <<>> THEN <<>>
    ELSE (IF KeepsTarget(plats, Head(targets).name)
          THEN TargetFiles(Head(targets).target) ELSE <<>>)
         \o TargetsFiles(Tail(targets), plats)

RECURSIVE PkgsFiles(_, _, _)
\* rustup_download_list: the outer filter and flat_map over channel.pkg.
PkgsFiles(pkgs, downloadDev, plats) ==
    IF pkgs = <<>> THEN <<>>
    ELSE (IF KeepsPkg(downloadDev, Head(pkgs).name)
          THEN TargetsFiles(Head(pkgs).target, plats) ELSE <<>>)
         \o PkgsFiles(Tail(pkgs), downloadDev, plats)

\* rustup_download_list, on the parsed manifest: (channel.date, files).
rustup_download_list(chan, downloadDev, plats) ==
    [date |-> chan.date, files |-> PkgsFiles(chan.pkg, downloadDev, plats)]

\* The elements of a sequence.
Range(q) == {q[k] : k \in DOMAIN q}

\* ===================================================================
\* The downloader: download and download_with_sha256_file, one call at a
\* time, step by step (src/src/download.rs).
\* ===================================================================

\* Number of calls made one after the other on the same destination.
MaxCalls == 2

VARIABLES
    fs,              \* the file system: existing path -> bytes
    fs0,             \* the file system before the current call
    pc,              \* where the current call stands
    hash,            \* download's `hash`: NoHash or Some(expected digest)
    retries,         \* download's `retries`
    force_download,  \* download's `force_download`
    via_sidecar,     \* the call entered through download_with_sha256_file
    res,             \* download's local `res`
    ret,             \* what download returned (None before it returns)
    n,               \* iterations of download's loop started so far
    http_res,        \* one_download's `http_res`: the status of the open response
    sha256,          \* one_download's `sha256` accumulator
    sha256_data,     \* download_with_sha256_file's `sha256_data`
    outcome,         \* what the entry point returned (None before)
    requests,        \* HTTP GETs issued by the current call
    ok_attempt,      \* some one_download of the current call returned Ok
    saw404,          \* some GET of the current call was answered 404
    calls,           \* calls finished so far
    \* the channel synchronizer (sync_rustup_channel)
    history,         \* mirror-<channel>-history.toml: <<>> or <<versions>>
    cpc,             \* where the current channel sync stands
    upstream,        \* the release upstream publishes now
    threads,         \* rustup.download_threads
    download_dev,    \* rustup.download_dev
    platforms,       \* the platform matrix: [unix, windows]
    date,            \* sync_rustup_channel's `date`
    files,           \* sync_rustup_channel's `files`: (relative path, hash) pairs
    tasks,           \* the batch: "queued", "running" or "done" per file
    ends,            \* what the fetch of each terminated task returned
    pb,              \* the progress channel of the batch: the messages sent, the join
    errors_occurred, \* sync_rustup_channel's `errors_occurred`
    result,          \* what the current channel sync returned
    syncs,           \* channel syncs finished so far
    pre,             \* the file system and the ledger before the current sync
    \* rustup_download_list on its own
    channel,         \* the parsed manifest handed to rustup_download_list
    listed           \* rustup_download_list has returned

dvars == <<fs, fs0, pc, hash, retries, force_download, via_sidecar, res, ret, n,
           http_res, sha256, sha256_data, outcome, requests, ok_attempt,
           saw404, calls>>

\* The downloader's variables other than the file system and the retry budget.
dlocals == <<fs0, pc, hash, force_download, via_sidecar, res, ret, n, http_res,
             sha256, sha256_data, outcome, requests, ok_attempt, saw404, calls>>

cvars == <<history, cpc, upstream, threads, download_dev, platforms, date, files,
           tasks, ends, pb, errors_occurred, result, syncs, pre>>

lvars == <<channel, listed>>

VARIABLES
    \* the driver (sync) and the retention GC (clean_old_files)
    cfg,             \* the [rustup] section: the retention counts and the pinned versions
    ledgers,         \* mirror-<channel>-history.toml per channel: <<>> or <<versions>>
    dpc,             \* where the current run of the driver stands
    pin,             \* pinned versions the loop of the current run has passed
    failures,        \* sync's `failures`
    outage,          \* what upstream fails to serve during the current run
    run,             \* runs finished so far
    gc,              \* the GC of the current run: invoked, its keep-set, what it deleted
    dresult,         \* what sync returned (None before it returns)
    fetched,         \* paths whose body the current run asked upstream for
    steps,           \* what each step of the current run returned
    last,            \* the previous run: the mirror it left, upstream then, its steps
    \* the installer synchronizer (sync_rustup_init)
    ipc,             \* where the installer sync stands
    offered,         \* the platforms upstream offers an installer for
    broken,          \* the platforms whose installer upstream fails to serve
    itasks,          \* the batch: "queued", "running" or "done" per platform
    ierrors,         \* sync_rustup_init's `errors_occurred`
    iresult,         \* what sync_rustup_init returned
    version,         \* sync_rustup_init's `rustup_version`
    iruns,           \* invocations of sync_rustup_init before the current one
    ipointer,        \* the release pointer upstream serves during the invocation
    igot,            \* the invocation issued a GET for the release pointer
    \* the crates.io-index synchronizer (sync_crates_repo, update_crates_config)
    commits,         \* the commits that exist, upstream's and the local ones, by id
    utip,            \* the tip of upstream's master
    repo,            \* <mirror>/crates.io-index: its references, index and working tree
    rlast,           \* the last operation on the repository and what it returned
    rruns,           \* operations on the repository so far
    \* two tasks of one batch fetching the same destination
    links,           \* the directory: the inode each path names
    inodes,          \* the content of each inode
    workers          \* each task: its place in download, its file handle, offset, digest

gvars == <<cfg, ledgers, dpc, pin, failures, outage, run, gc, dresult, fetched,
           steps, last>>

ivars == <<ipc, offered, broken, itasks, ierrors, iresult, version, iruns, ipointer, igot>>

\* The variables of the driver and of the installer synchronizer.
rvars == <<commits, utip, repo, rlast, rruns>>

wvars == <<links, inodes, workers>>

xvars == <<gvars, ivars, rvars, wvars>>

vars == <<dvars, cvars, lvars, xvars>>

\* A response's status; NoResponse when no response is open.
StatusOk == 200
StatusNotFound == 404
NoResponse == 0

\* SyncError kinds as records; FailedDownloads carries its count.
NoResult == [kind |-> None, count |-> 0]
SyncOk == [kind |-> Ok, count |-> 0]
SyncErr(kind) == [kind |-> kind, count |-> 0]
FailedDownloads(count) == [kind |-> "FailedDownloads", count |-> count]

\* No call of the downloader is in progress.
DlIdle ==
    /\ fs0 = <<>>
    /\ pc = "off"
    /\ hash = NoHash
    /\ force_download = FALSE
    /\ via_sidecar = FALSE
    /\ res = Ok
    /\ ret = None
    /\ n = 0
    /\ http_res = NoResponse
    /\ sha256 = Sha256New
    /\ sha256_data = <<>>
    /\ outcome = None
    /\ requests = 0
    /\ ok_attempt = FALSE
    /\ saw404 = FALSE
    /\ calls = 0

\* The progress channel on which nothing was sent.
NoProgress == [increments |-> 0, done |-> FALSE, joined |-> FALSE]

\* No channel sync is in progress.
ChIdle ==
    /\ history = <<>>
    /\ cpc = "off"
    /\ upstream = 0
    /\ threads = 0
    /\ download_dev = FALSE
    /\ platforms = [unix |-> {}, windows |-> {}]
    /\ date = ""
    /\ files = <<>>
    /\ tasks = <<>>
    /\ ends = <<>>
    /\ pb = NoProgress
    /\ errors_occurred = 0
    /\ result = NoResult
    /\ syncs = 0
    /\ pre = [fs |-> <<>>, history |-> <<>>]

\* rustup_download_list is not being called on its own.
LiIdle ==
    /\ channel = [date |-> "", pkg |-> <<>>]
    /\ listed = FALSE

\* Option<usize>::None of a retention count; Some(n) is <<n>>.
NoCount == <<>>

\* No GC has been invoked.
NoGc == [invoked |-> FALSE, keep |-> {}, deleted |-> {}, stuck |-> {}, res |-> None]

\* No run came before.
NoRun == [fs |-> <<>>, upstream |-> 0, steps |-> <<>>]

\* The driver is not running.
DrIdle ==
    /\ cfg = [keep_latest_stables |-> NoCount, keep_latest_betas |-> NoCount,
              keep_latest_nightlies |-> NoCount, pinned_rust_versions |-> <<>>]
    /\ ledgers = <<>>
    /\ dpc = "off"
    /\ pin = 0
    /\ failures = FALSE
    /\ outage = None
    /\ run = 0
    /\ gc = NoGc
    /\ dresult = None
    /\ fetched = {}
    /\ steps = <<>>
    /\ last = NoRun

\* No installer sync is in progress.
InIdle ==
    /\ ipc = "off"
    /\ offered = {}
    /\ broken = {}
    /\ itasks = <<>>
    /\ ierrors = 0
    /\ iresult = NoResult
    /\ version = ""
    /\ iruns = 0
    /\ ipointer = <<>>
    /\ igot = FALSE

\* <mirror>/crates.io-index before anything is cloned into it.
NoRepo == [git |-> FALSE, origin_master |-> 0, master |-> 0, head |-> "",
           detached |-> 0, index |-> <<>>, workdir |-> <<>>]

\* No operation on the index repository yet.
NoOp == [op |-> None, res |-> None, tip |-> 0, had_git |-> FALSE, base_url |-> "",
         synced |-> FALSE]

\* The index synchronizer is not running.
IxIdle ==
    /\ commits = <<>>
    /\ utip = 0
    /\ repo = NoRepo
    /\ rlast = NoOp
    /\ rruns = 0

\* No two tasks are fetching the same destination.
RaIdle ==
    /\ links = <<>>
    /\ inodes = <<>>
    /\ workers = <<>>

\* Neither the driver nor the other synchronizers are running.
XIdle == DrIdle /\ InIdle /\ IxIdle /\ RaIdle

\* The destination of the modelled calls, its staging file and its sidecar.
DestPath == "dest"
PartPath == append_to_path(DestPath, ".part")
Sha256Path == append_to_path(DestPath, ".sha256")

\* What upstream publishes at the URL, an older file, and the page it sends
\* with a 404 status.
GoodBody == <<0, 1>>
StaleBody == <<1>>
NotFoundPage == <<1, 1>>


\* Texts upstream may answer for `url + ".sha256"`: the sidecar of the file,
\* the sidecar of an older file, or a text shorter than 64 characters.
SidecarTexts == {SidecarText(Sha256Of(GoodBody)), SidecarText(Sha256Of(StaleBody)), <<>>}

\* File systems a call may start from.
DlInitialFs ==
    {f \in UNION {[D -> Bodies \cup SidecarTexts] : D \in SUBSET {DestPath, PartPath, Sha256Path}} :
        /\ Exists(f, DestPath) => f[DestPath] \in {GoodBody, StaleBody}
        /\ Exists(f, PartPath) => f[PartPath] = StaleBody
        /\ Exists(f, Sha256Path) => f[Sha256Path] = SidecarText(Sha256Of(StaleBody))}

\* The arguments of a call and the locals of its entry point.
DlEnter(viaSidecar, h, r, force) ==
    /\ via_sidecar' = viaSidecar
    /\ hash' = h
    /\ retries' = r
    /\ force_download' = force
    /\ pc' = IF viaSidecar THEN "sidecar" ELSE "download"
    /\ res' = Ok
    /\ ret' = None
    /\ n' = 0
    /\ http_res' = NoResponse
    /\ sha256' = Sha256New
    /\ sha256_data' = <<>>
    /\ outcome' = None
    /\ requests' = 0
    /\ ok_attempt' = FALSE
    /\ saw404' = FALSE

DlInit ==
    /\ fs \in DlInitialFs
    /\ fs0 = fs
    /\ via_sidecar \in BOOLEAN
    /\ hash \in IF via_sidecar THEN {NoHash} ELSE {NoHash, Some(Sha256Of(GoodBody))}
    /\ retries \in 0 .. MaxRetries
    /\ force_download \in BOOLEAN
    /\ pc = IF via_sidecar THEN "sidecar" ELSE "download"
    /\ res = Ok
    /\ ret = None
    /\ n = 0
    /\ http_res = NoResponse
    /\ sha256 = Sha256New
    /\ sha256_data = <<>>
    /\ outcome = None
    /\ requests = 0
    /\ ok_attempt = FALSE
    /\ saw404 = FALSE
    /\ calls = 0
    /\ ChIdle
    /\ LiIdle
    /\ XIdle

\* download_with_sha256_file: download_string(&sha256_url) and
\* `&sha256_data[..64]`.
FetchSidecar ==
    /\ UNCHANGED <<cvars, lvars, xvars>>
    /\ pc = "sidecar"
    /\ requests' = requests + 1
    /\ \/ /\ outcome' = ErrDownload
          /\ pc' = "done"
          /\ UNCHANGED <<sha256_data, hash>>
       \/ \E text \in SidecarTexts :
            /\ sha256_data' = text
            /\ IF SidecarPanics(text)
               THEN outcome' = "Panic" /\ pc' = "done" /\ UNCHANGED hash
               ELSE hash' = Some(SidecarHash(text)) /\ pc' = "download" /\ UNCHANGED outcome
    /\ UNCHANGED <<fs, fs0, retries, force_download, via_sidecar, res, ret, n,
                   http_res, sha256, ok_attempt, saw404, calls>>

\* download: the `path.exists() && !force_download` test.
DownloadEntry ==
    /\ UNCHANGED <<cvars, lvars, xvars>>
    /\ pc = "download"
    /\ IF SkipsDownload(fs, DestPath, force_download)
       THEN ret' = Ok /\ pc' = "returned" /\ UNCHANGED <<res, n>>
       ELSE res' = Ok /\ n' = 0 /\ pc' = "loop" /\ UNCHANGED ret
    /\ UNCHANGED <<fs, fs0, hash, retries, force_download, via_sidecar, http_res,
                   sha256, sha256_data, outcome, requests, ok_attempt, saw404, calls>>

\* download's loop starts an iteration; one_download: reqwest::get(url)?.
\* The response's status is never looked at.
Get ==
    /\ UNCHANGED <<cvars, lvars, xvars>>
    /\ pc = "loop"
    /\ LoopContinues(n, retries)
    /\ n' = n + 1
    /\ requests' = requests + 1
    /\ \/ /\ res' = ErrDownload
          /\ pc' = "loop"
          /\ UNCHANGED <<http_res, saw404>>
       \/ /\ http_res' = StatusOk
          /\ pc' = "create"
          /\ UNCHANGED <<res, saw404>>
       \/ /\ http_res' = StatusNotFound
          /\ saw404' = TRUE
          /\ pc' = "create"
          /\ UNCHANGED res
    /\ UNCHANGED <<fs, fs0, hash, retries, force_download, via_sidecar, ret,
                   sha256, sha256_data, outcome, ok_attempt, calls>>

\* download's loop has run its retries + 1 iterations.
LoopExit ==
    /\ UNCHANGED <<cvars, lvars, xvars>>
    /\ pc = "loop"
    /\ ~LoopContinues(n, retries)
    /\ pc' = "after_loop"
    /\ UNCHANGED <<fs, fs0, hash, retries, force_download, via_sidecar, res, ret, n,
                   http_res, sha256, sha256_data, outcome, requests, ok_attempt,
                   saw404, calls>>

\* The bytes the open response may deliver next, after `sent` bytes: any byte
\* of a body of at most MaxBody bytes, or the next byte of the 404 page.
NextBytes(status, sent) ==
    IF status = StatusNotFound
    THEN IF sent < Len(NotFoundPage) THEN {NotFoundPage[sent + 1]} ELSE {}
    ELSE IF sent < MaxBody THEN Byte ELSE {}

\* The open response may end after `sent` bytes: a body ends anywhere (upstream
\* decides its length), the 404 page at its end.
MayEnd(status, sent) == status = StatusNotFound => sent = Len(NotFoundPage)

\* one_download fails with error e: the locals go out of scope and download's
\* loop assigns `res = Err(e)`.
AttemptFails(e) ==
    /\ res' = e
    /\ pc' = "loop"
    /\ http_res' = NoResponse
    /\ sha256' = Sha256New

\* one_download: Sha256::new() and create_file_create_dir(&part_path)?.
CreatePart ==
    /\ UNCHANGED <<cvars, lvars, xvars>>
    /\ pc = "create"
    /\ \/ AttemptFails(ErrIo) /\ UNCHANGED fs
       \/ /\ fs' = WriteFile(fs, PartPath, <<>>)
          /\ sha256' = Sha256New
          /\ pc' = "read"
          /\ UNCHANGED <<res, http_res>>
    /\ UNCHANGED <<fs0, hash, retries, force_download, via_sidecar, ret, n,
                   sha256_data, outcome, requests, ok_attempt, saw404, calls>>

\* one_download: one iteration of the read loop.  Every byte read so far is
\* in the staging file.
ReadChunk ==
    /\ UNCHANGED <<cvars, lvars, xvars>>
    /\ pc = "read"
    /\ \/ AttemptFails(ErrIo) /\ UNCHANGED fs          \* http_res.read fails
       \/ /\ MayEnd(http_res, Len(fs[PartPath]))        \* byte_count == 0
          /\ pc' = "verify"
          /\ UNCHANGED <<fs, sha256, http_res, res>>
       \/ \E b \in NextBytes(http_res, Len(fs[PartPath])) :
            \/ AttemptFails(ErrIo) /\ UNCHANGED fs     \* f.write_all fails
            \/ /\ sha256' = IF is_some(hash) THEN Sha256Write(sha256, b) ELSE sha256
               /\ fs' = WriteFile(fs, PartPath, Append(fs[PartPath], b))
               /\ pc' = "read"
               /\ UNCHANGED <<res, http_res>>
    /\ UNCHANGED <<fs0, hash, retries, force_download, via_sidecar, ret, n,
                   sha256_data, outcome, requests, ok_attempt, saw404, calls>>

\* one_download: the hash test and the rename; `Ok(_) => break` leaves the
\* loop without assigning `res`.
Verify ==
    /\ UNCHANGED <<cvars, lvars, xvars>>
    /\ pc = "verify"
    /\ IF is_some(hash) /\ ~HashMatches(sha256, unwrap(hash))
       THEN AttemptFails(ErrMismatchedHash) /\ UNCHANGED <<fs, ok_attempt>>
       ELSE \/ AttemptFails(ErrIo) /\ UNCHANGED <<fs, ok_attempt>>   \* fs::rename fails
            \/ /\ fs' = IF is_some(hash)
                        THEN move_if_exists(fs, PartPath, DestPath)
                        ELSE Rename(fs, PartPath, DestPath)
               /\ ok_attempt' = TRUE
               /\ pc' = "after_loop"
               /\ http_res' = NoResponse
               /\ sha256' = Sha256New
               /\ UNCHANGED res
    /\ UNCHANGED <<fs0, hash, retries, force_download, via_sidecar, ret, n,
                   sha256_data, outcome, requests, saw404, calls>>

\* download: `if res.is_err() { return res; } Ok(())`.
AfterLoop ==
    /\ UNCHANGED <<cvars, lvars, xvars>>
    /\ pc = "after_loop"
    /\ ret' = DownloadReturn(res)
    /\ pc' = "returned"
    /\ UNCHANGED <<fs, fs0, hash, retries, force_download, via_sidecar, res, n,
                   http_res, sha256, sha256_data, outcome, requests, ok_attempt,
                   saw404, calls>>

\* A direct call of download is over.
ReturnDirect ==
    /\ UNCHANGED <<cvars, lvars, xvars>>
    /\ pc = "returned"
    /\ ~via_sidecar
    /\ outcome' = ret
    /\ pc' = "done"
    /\ UNCHANGED <<fs, fs0, hash, retries, force_download, via_sidecar, res, ret, n,
                   http_res, sha256, sha256_data, requests, ok_attempt, saw404, calls>>

\* download_with_sha256_file: download failed and its error is returned.
ReturnFailed ==
    /\ UNCHANGED <<cvars, lvars, xvars>>
    /\ pc = "returned"
    /\ via_sidecar
    /\ ~WritesSidecar(ret)
    /\ outcome' = ret
    /\ pc' = "done"
    /\ UNCHANGED <<fs, fs0, hash, retries, force_download, via_sidecar, res, ret, n,
                   http_res, sha256, sha256_data, requests, ok_attempt, saw404, calls>>

\* download_with_sha256_file: write_file_create_dir(&sha256_path, &sha256_data)?.
WriteSidecar ==
    /\ UNCHANGED <<cvars, lvars, xvars>>
    /\ pc = "returned"
    /\ via_sidecar
    /\ WritesSidecar(ret)
    /\ \/ outcome' = ErrIo /\ UNCHANGED fs
       \/ outcome' = Ok /\ fs' = WriteFile(fs, Sha256Path, sha256_data)
    /\ pc' = "done"
    /\ UNCHANGED <<fs0, hash, retries, force_download, via_sidecar, res, ret, n,
                   http_res, sha256, sha256_data, requests, ok_attempt, saw404, calls>>

\* The caller makes the same call again: same destination, digest, retry
\* budget and force flag.
CallAgain ==
    /\ UNCHANGED <<cvars, lvars, xvars>>
    /\ pc = "done"
    /\ calls + 1 < MaxCalls
    /\ calls' = calls + 1
    /\ fs0' = fs
    /\ DlEnter(via_sidecar, IF via_sidecar THEN NoHash ELSE hash, retries, force_download)
    /\ UNCHANGED fs

DlNext ==
    \/ FetchSidecar
    \/ DownloadEntry
    \/ Get
    \/ LoopExit
    \/ CreatePart
    \/ ReadChunk
    \/ Verify
    \/ AfterLoop
    \/ ReturnDirect
    \/ ReturnFailed
    \/ WriteSidecar
    \/ CallAgain

SpecDownload == DlInit /\ [][DlNext]_vars

\* The content at path as an option: <<>> when the file does not exist.
FileAt(f, path) == IF Exists(f, path) THEN <<f[path]>> ELSE <<>>

\* The destination does not exist, or its SHA-256 is the digest h.
DestVerified(f, h) == ~Exists(f, DestPath) \/ Sha256Of(f[DestPath]) = h

\* ------------------------------------------------------------ claims

C2_RetryResult ==
    (pc = "returned" /\ n > 0) =>
        /\ n <= retries + 1
        /\ ret = Ok <=> ok_attempt

\* C3: when an attempt was answered 404, download made exactly one attempt and
\* returns the distinct kind NotFound.
C3_NotFoundNotRetried ==
    (pc = "returned" /\ saw404) => (n = 1 /\ ret = "NotFound")

\* C4: when the destination exists and force is false, download returns Ok in
\* one step, issues no request and changes no file.
C4_SkipWhenPresent ==
    [][(pc = "download" /\ Exists(fs, DestPath) /\ ~force_download) =>
            /\ pc' = "returned"
            /\ ret' = Ok
            /\ requests' = requests
            /\ fs' = fs]_dvars

\* C4 witness: download returned Ok without running its loop, on a destination
\* that exists, with force false.
C4_Witness ==
    /\ pc = "returned"
    /\ Exists(fs, DestPath)
    /\ ~force_download
    /\ n = 0
    /\ ret = Ok

\* C8: the sidecar dest.sha256 is written or modified only after download
\* returned Ok with the destination in place; when download failed the sidecar
\* is what it was before the call.
C8_SidecarAfterArtifact ==
    /\ [][FileAt(fs', Sha256Path) # FileAt(fs, Sha256Path) =>
            /\ pc = "returned"
            /\ ret = Ok
            /\ Exists(fs, DestPath)]_dvars
    /\ []((pc = "done" /\ via_sidecar /\ is_err(ret) /\ ret # None) =>
            FileAt(fs, Sha256Path) = FileAt(fs0, Sha256Path))

\* C8 witness: download_with_sha256_file fetched the artifact and then wrote its
\* sidecar.
C8_Witness ==
    /\ pc = "done"
    /\ via_sidecar
    /\ n > 0
    /\ outcome = Ok
    /\ Exists(fs, DestPath)
    /\ FileAt(fs, Sha256Path) = <<sha256_data>>
    /\ FileAt(fs0, Sha256Path) # <<sha256_data>>

\* ===================================================================
\* rustup_download_list on its own: the download list of every manifest of a
\* bounded family (src/src/rustup.rs).
\* ===================================================================

\* Most packages in a manifest.
MaxPkgs == 2

PkgNames == {"rustc", "rustc-dev", "rust-src"}

LinuxGnu == "x86_64-unknown-linux-gnu"
WindowsMsvc == "x86_64-pc-windows-msvc"

\* The Pkg.target entries of a package: a target per platform, the second one
\* available or not; rust-src has the one target "*".
TargetsOfPkg(pkgName, d, secondAvailable) ==
    IF pkgName = "rust-src" THEN <<TargetEntry(pkgName, d, "*", TRUE)>>
    ELSE <<TargetEntry(pkgName, d, LinuxGnu, TRUE),
           TargetEntry(pkgName, d, WindowsMsvc, secondAvailable)>>

\* The sequences of at most MaxPkgs distinct package names: the iteration
\* orders of the HashMap Channel.pkg.
PkgOrders == {q \in SeqsUpTo(PkgNames, MaxPkgs) : Cardinality(Range(q)) = Len(q)}

\* struct Channel, parsed: the date and the packages in iteration order.
ChannelOf(d, names, secondAvailable) ==
    [date |-> d,
     pkg |-> [k \in DOMAIN names |-> PkgEntry(names[k], TargetsOfPkg(names[k], d, secondAvailable))]]

\* The platform matrices tried: struct Platforms.
ListPlatforms ==
    {[unix |-> u, windows |-> w] : u \in SUBSET {LinuxGnu}, w \in SUBSET {WindowsMsvc}}

LiInit ==
    /\ channel \in {ChannelOf("2024-01-01", names, a) : names \in PkgOrders, a \in BOOLEAN}
    /\ download_dev \in BOOLEAN
    /\ platforms \in ListPlatforms
    /\ listed = FALSE
    /\ date = ""
    /\ files = <<>>
    /\ fs = <<>>
    /\ retries = 0
    /\ DlIdle
    /\ history = <<>>
    /\ cpc = "off"
    /\ upstream = 0
    /\ threads = 0
    /\ tasks = <<>>
    /\ ends = <<>>
    /\ pb = NoProgress
    /\ errors_occurred = 0
    /\ result = NoResult
    /\ syncs = 0
    /\ pre = [fs |-> <<>>, history |-> <<>>]
    /\ XIdle

\* rustup_download_list returns (date, files).
ListDownloads ==
    /\ ~listed
    /\ LET list == rustup_download_list(channel, download_dev, platforms)
       IN  date' = list.date /\ files' = list.files
    /\ listed' = TRUE
    /\ UNCHANGED <<dvars, xvars, channel, download_dev, platforms, history, cpc, upstream,
                   threads, tasks, ends, pb, errors_occurred, result, syncs, pre>>

LiNext == ListDownloads

SpecList == LiInit /\ [][LiNext]_vars

\* The (relative path, hash) pairs of a package's targets that pass the
\* platform filter.
ArtifactsOfPkg(pkg) == Range(TargetsFiles(pkg.target, platforms))

\* C10: with download_dev false the list holds no artifact of rustc-dev and
\* holds every artifact of every other package that passes the platform filter;
\* with download_dev true it holds those of every package.
C10_DevFilter ==
    listed =>
        \A k \in DOMAIN channel.pkg :
            LET pkg == channel.pkg[k]
            IN  IF ~download_dev /\ pkg.name = "rustc-dev"
                THEN ArtifactsOfPkg(pkg) \cap Range(files) = {}
                ELSE ArtifactsOfPkg(pkg) \subseteq Range(files)

\* ===================================================================
\* The channel synchronizer: sync_rustup_channel, one sync after the other
\* on one channel, upstream moving on between them (src/src/rustup.rs).
\* ===================================================================

\* Releases upstream publishes, one after the other.
NumReleases == 2
\* Channel syncs run one after the other.
MaxSyncs == 2
\* Largest worker pool (rustup.download_threads).
MaxThreads == 2

\* sync_rustup_channel's paths, for the channel "stable".
ChannelName == "stable"
channel_path == "dist/channel-rust-" \o ChannelName \o ".toml"
channel_part_path == append_to_path(channel_path, ".part")

\* The date of release k.
DateOf(k) == "2024-0" \o ToString(k) \o "-01"

\* The manifest of release k as upstream serves it, and as toml::from_str
\* decodes it; any other text is a parse error (<<>>).
ManifestBytes(k) == <<k>>
ManifestOf(k) == ChannelOf(DateOf(k), <<"rustc-dev", "rust-src">>, FALSE)
ParseChannel(bytes) ==
    IF Len(bytes) = 1 /\ bytes[1] \in 1 .. NumReleases
    THEN <<ManifestOf(bytes[1])>>
    ELSE <<>>

\* What download_string may answer for the manifest's sidecar URL: an error,
\* the sidecar of the current manifest, or a text shorter than 64 characters.
ManifestSidecars(k) == {<<>>, <<SidecarText(Sha256Of(ManifestBytes(k)))>>, << <<>> >>}

\* What an attempt on a URL whose file is `body` may meet: success, a failed
\* GET, a stream that ends early (the digest will not match), a read or write
\* error after part of the body.
AttemptsOn(body) ==
    {Attempt(TRUE, TRUE, body, TRUE, TRUE),
     Attempt(FALSE, TRUE, <<>>, TRUE, TRUE),
     Attempt(TRUE, TRUE, SubSeq(body, 1, Len(body) - 1), TRUE, TRUE),
     Attempt(TRUE, TRUE, SubSeq(body, 1, Len(body) - 1), FALSE, TRUE)}

\* What the retries + 1 attempts of one download call may meet.
AttemptSeqs(body, budget) == [1 .. budget + 1 -> AttemptsOn(body)]

\* Upstream does not have the file: every attempt is answered by the 404
\* page.
Gone(budget) == [k \in 1 .. budget + 1 |-> Attempt(TRUE, TRUE, NotFoundPage, TRUE, TRUE)]

\* A slip: the pool keeps one of its workers idle.
PoolHasWorkerSpare(running, size) == running + 1 < size

\* Pool::new(threads): a task starts when fewer than `threads` are running.
PoolHasWorker(running, size) == running < size

\* The renderer thread of progress_bar ends once it has received Done, so
\* that pb_thread.join() returns.
renderer_exits(p) == p.done

\* A slip: the counter is stored to instead of added to.
fetch_store(counter, val) == val

\* AtomicUsize::fetch_add: one indivisible read-modify-write.
fetch_add(counter, val) == counter + val

\* sync_one_rustup_target(path, source, url, hash, retries)
sync_one_rustup_target(f, url, h, budget, attempts) ==
    download(f, url, Some(h), budget, FALSE, attempts)

\* A slip: the new entry is not inserted.
add_to_channel_history_noop(h, d, fileList) ==
    IF h = <<>> THEN << <<>> >> ELSE h

\* A slip: the ledger is written anew with the one entry.
add_to_channel_history_fresh(h, d, fileList) ==
    << [v \in {d} |-> [k \in DOMAIN fileList |-> fileList[k][1]]] >>

\* add_to_channel_history(path, channel, date, files): the ledger it writes.
\* get_channel_history gives an empty map when the file does not exist.
add_to_channel_history(h, d, fileList) ==
    LET versions == IF h = <<>> THEN <<>> ELSE h[1]
        paths == [k \in DOMAIN fileList |-> fileList[k][1]]
    IN  << [v \in DOMAIN versions \cup {d} |-> IF v = d THEN paths ELSE versions[v]] >>

\* A slip in the test: the failure counter is not looked at.
BatchSucceededAlways(errors) == TRUE

\* sync_rustup_channel: `errors == 0`
BatchSucceeded(errors) == errors = 0

ChInit ==
    /\ fs = <<>>
    /\ history = <<>>
    /\ retries \in 0 .. MaxRetries
    /\ threads \in 1 .. MaxThreads
    /\ download_dev = FALSE        \* sync: `rustup.download_dev.unwrap_or(false)`
    /\ platforms = [unix |-> {LinuxGnu}, windows |-> {}]
    /\ upstream = 1
    /\ cpc = "init"
    /\ date = ""
    /\ files = <<>>
    /\ tasks = <<>>
    /\ ends = <<>>
    /\ pb = NoProgress
    /\ errors_occurred = 0
    /\ result = NoResult
    /\ syncs = 0
    /\ pre = [fs |-> fs, history |-> history]
    /\ DlIdle
    /\ LiIdle
    /\ XIdle

\* What a channel sync leaves alone.
ChFrame == UNCHANGED <<dlocals, lvars, xvars, retries, threads, download_dev, platforms,
                       upstream, syncs, pre>>

\* sync_rustup_channel returns r.
SyncReturns(r) == cpc' = "returned" /\ result' = r

\* download_with_sha256_file(&channel_url, &channel_part_path, retries, true)?
StageManifest ==
    /\ cpc = "init"
    /\ \E sidecar \in ManifestSidecars(upstream),
          attempts \in AttemptSeqs(ManifestBytes(upstream), retries),
          writeOk \in BOOLEAN :
          LET got == download_with_sha256_file(fs, channel_part_path, retries, TRUE,
                                               sidecar, attempts, writeOk)
          IN  /\ fs' = got.fs
              /\ IF got.res = Ok
                 THEN cpc' = "staged" /\ UNCHANGED result
                 ELSE SyncReturns(SyncErr(got.res))
    /\ UNCHANGED <<history, date, files, tasks, ends, pb, errors_occurred>>
    /\ ChFrame

\* rustup_download_list(&channel_part_path, download_dev, &platforms)?, the
\* progress bar, `errors_occurred = AtomicUsize::new(0)` and the submission of
\* one task per file to the pool.
ListFiles ==
    /\ cpc = "staged"
    /\ IF ~Exists(fs, channel_part_path)
       THEN SyncReturns(SyncErr(ErrIo)) /\ UNCHANGED <<date, files, tasks, ends, pb>>
       ELSE LET parsed == ParseChannel(fs[channel_part_path])
            IN  IF parsed = <<>>
                THEN SyncReturns(SyncErr("Parse")) /\ UNCHANGED <<date, files, tasks, ends, pb>>
                ELSE LET list == rustup_download_list(parsed[1], download_dev, platforms)
                     IN  /\ date' = list.date
                         /\ files' = list.files
                         /\ tasks' = [k \in DOMAIN list.files |-> "queued"]
                         /\ ends' = <<>>
                         /\ pb' = NoProgress
                         /\ cpc' = "fetching"
                         /\ UNCHANGED result
    /\ errors_occurred' = 0
    /\ UNCHANGED <<fs, history>>
    /\ ChFrame

\* A worker of the pool takes the next queued task.
StartTask(k) ==
    /\ cpc = "fetching"
    /\ tasks[k] = "queued"
    /\ \A j \in 1 .. k - 1 : tasks[j] # "queued"
    /\ PoolHasWorker(Cardinality({j \in DOMAIN tasks : tasks[j] = "running"}), threads)
    /\ tasks' = [tasks EXCEPT ![k] = "running"]
    /\ UNCHANGED <<fs, history, cpc, date, files, ends, pb, errors_occurred, result>>
    /\ ChFrame

\* The task's closure: sync_one_rustup_target, and on an error
\* `error_occurred.fetch_add(1, Ordering::Release)`.
RunTask(k) ==
    /\ cpc = "fetching"
    /\ tasks[k] = "running"
    /\ \E attempts \in AttemptSeqs(ArtifactBody, retries) \cup {Gone(retries)} :
          LET got == sync_one_rustup_target(fs, files[k][1], files[k][2], retries, attempts)
          IN  /\ fs' = got.fs
              /\ errors_occurred' = IF is_err(got.res) THEN fetch_add(errors_occurred, 1)
                                    ELSE errors_occurred
              /\ ends' = [j \in DOMAIN ends \cup {k} |->
                            IF j = k THEN [res |-> got.res, gone |-> attempts = Gone(retries)]
                            ELSE ends[j]]
    /\ pb' = [pb EXCEPT !.increments = @ + 1]
    /\ tasks' = [tasks EXCEPT ![k] = "done"]
    /\ UNCHANGED <<history, cpc, date, files, result>>
    /\ ChFrame

\* The pool's scope ends when every task has terminated; the progress bar is
\* joined; `errors_occurred.load(Ordering::Acquire)` and the test on it.
JoinBatch ==
    /\ cpc = "fetching"
    /\ \A k \in DOMAIN tasks : tasks[k] = "done"
    /\ renderer_exits([pb EXCEPT !.done = TRUE])
    /\ IF BatchSucceeded(errors_occurred)
       THEN cpc' = "add_history" /\ UNCHANGED result
       ELSE SyncReturns(FailedDownloads(errors_occurred))
    /\ pb' = [pb EXCEPT !.done = TRUE, !.joined = TRUE]
    /\ UNCHANGED <<fs, history, date, files, tasks, ends, errors_occurred>>
    /\ ChFrame

\* add_to_channel_history(path, channel, &date, &files)?
AddHistory ==
    /\ cpc = "add_history"
    /\ \/ SyncReturns(SyncErr(ErrIo)) /\ UNCHANGED history
       \/ /\ history' = add_to_channel_history(history, date, files)
          /\ cpc' = "move_sha256"
          /\ UNCHANGED result
    /\ UNCHANGED <<fs, date, files, tasks, ends, pb, errors_occurred>>
    /\ ChFrame

\* move_if_exists_with_sha256: move_if_exists(&sha256_from_path, &sha256_to_path)?
MoveSha256 ==
    /\ cpc = "move_sha256"
    /\ LET sha256_from_path == append_to_path(channel_part_path, ".sha256")
           sha256_to_path == append_to_path(channel_path, ".sha256")
       IN  \/ /\ Exists(fs, sha256_from_path)        \* fs::rename fails
              /\ SyncReturns(SyncErr(ErrIo))
              /\ UNCHANGED fs
           \/ /\ fs' = move_if_exists(fs, sha256_from_path, sha256_to_path)
              /\ cpc' = "move_manifest"
              /\ UNCHANGED result
    /\ UNCHANGED <<history, date, files, tasks, ends, pb, errors_occurred>>
    /\ ChFrame

\* move_if_exists_with_sha256: move_if_exists(&from, &to)?, then Ok(()).
MoveManifest ==
    /\ cpc = "move_manifest"
    /\ \/ /\ Exists(fs, channel_part_path)           \* fs::rename fails
          /\ SyncReturns(SyncErr(ErrIo))
          /\ UNCHANGED fs
       \/ /\ fs' = move_if_exists(fs, channel_part_path, channel_path)
          /\ SyncReturns(SyncOk)
    /\ UNCHANGED <<history, date, files, tasks, ends, pb, errors_occurred>>
    /\ ChFrame

\* The next run of the mirror syncs the channel again; upstream may have
\* published its next release in between.
NextSync ==
    /\ cpc = "returned"
    /\ syncs + 1 < MaxSyncs
    /\ syncs' = syncs + 1
    /\ upstream' \in {upstream, IF upstream < NumReleases THEN upstream + 1 ELSE upstream}
    /\ pre' = [fs |-> fs, history |-> history]
    /\ cpc' = "init"
    /\ date' = ""
    /\ files' = <<>>
    /\ tasks' = <<>>
    /\ ends' = <<>>
    /\ pb' = NoProgress
    /\ errors_occurred' = 0
    /\ result' = NoResult
    /\ UNCHANGED <<fs, history, dlocals, lvars, xvars, retries, threads, download_dev,
                   platforms>>

\* The steps of one channel sync.
ChSteps ==
    \/ StageManifest
    \/ ListFiles
    \/ \E k \in DOMAIN tasks : StartTask(k)
    \/ \E k \in DOMAIN tasks : RunTask(k)
    \/ JoinBatch
    \/ AddHistory
    \/ MoveSha256
    \/ MoveManifest

ChNext ==
    \/ ChSteps
    \/ NextSync

SpecChannel == ChInit /\ [][ChNext]_vars

\* The published manifest's sidecar, and the staged one.
channel_sha256_path == append_to_path(channel_path, ".sha256")

\* Every task of the batch has terminated.
BatchDone == \A k \in DOMAIN tasks : tasks[k] = "done"

\* The ledger lists date d.
LedgerHas(h, d) == h # <<>> /\ d \in DOMAIN h[1]

\* The date of the manifest at path p.
ManifestDate(f, p) == ParseChannel(f[p])[1].date

\* C5: a channel sync whose failure counter is non-zero after the batch
\* returns FailedDownloads with that count, and leaves the ledger, the
\* published manifest and its sidecar as they were before the sync, and the
\* staged manifest on disk.
C5_FailedSyncFrame ==
    (cpc = "returned" /\ errors_occurred > 0) =>
        /\ result = FailedDownloads(errors_occurred)
        /\ history = pre.history
        /\ FileAt(fs, channel_path) = FileAt(pre.fs, channel_path)
        /\ FileAt(fs, channel_sha256_path) = FileAt(pre.fs, channel_sha256_path)
        /\ Exists(fs, channel_part_path)

\* C5 witness: a sync of a new release failed in its batch while an older
\* manifest is published.
C5_Witness ==
    /\ cpc = "returned"
    /\ errors_occurred > 0
    /\ Exists(fs, channel_path)
    /\ Exists(fs, channel_part_path)
    /\ fs[channel_part_path] # fs[channel_path]

\* C6: the ledger changes only once every task of the batch has terminated
\* with the failure counter at zero; the published manifest changes only after
\* that, with the ledger entry of the staged manifest's date written from the
\* batch's files; and whenever a manifest is published, no task is unfinished
\* and the ledger lists its date.
C6_PublicationOrder ==
    /\ [][history' # history => (BatchDone /\ errors_occurred = 0 /\ Len(tasks) = Len(files))]_vars
    /\ [][FileAt(fs', channel_path) # FileAt(fs, channel_path) =>
            /\ BatchDone /\ errors_occurred = 0
            /\ LedgerHas(history, ManifestDate(fs, channel_part_path))
            /\ history[1][date] = [k \in DOMAIN files |-> files[k][1]]]_vars
    /\ [](Exists(fs, channel_path) =>
            /\ LedgerHas(history, ManifestDate(fs, channel_path))
            /\ cpc = "fetching" => FileAt(fs, channel_path) = FileAt(pre.fs, channel_path))

\* C6 witness: the second release has been published after its batch and its
\* ledger entry.
C6_Witness ==
    /\ cpc = "returned"
    /\ result = SyncOk
    /\ Len(files) > 0
    /\ Exists(pre.fs, channel_path)
    /\ fs[channel_path] # pre.fs[channel_path]
    /\ LedgerHas(history, date)
    /\ ~LedgerHas(pre.history, date)

\* C7: right after a channel sync that returned success for a manifest dated
\* D, every path the ledger lists under D exists.
C7_LedgerPathsExist ==
    (cpc = "returned" /\ result = SyncOk) =>
        /\ LedgerHas(history, date)
        /\ \A path \in Range(history[1][date]) : Exists(fs, path)

\* C7 witness: a sync returned success and its ledger entry lists paths, one of
\* which this sync fetched.
C7_Witness ==
    /\ cpc = "returned"
    /\ result = SyncOk
    /\ LedgerHas(history, date)
    /\ \E path \in Range(history[1][date]) : Exists(fs, path) /\ ~Exists(pre.fs, path)

\* C9: whenever the published manifest and its sidecar both exist, the
\* sidecar's digest is the SHA-256 of the manifest.
C9_ManifestMatchesSidecar ==
    (Exists(fs, channel_path) /\ Exists(fs, channel_sha256_path)) =>
        SidecarHash(fs[channel_sha256_path]) = Sha256Of(fs[channel_path])

\* ===================================================================
\* The retention GC: clean_old_files (src/src/rustup.rs).
\* ===================================================================

\* (ChannelsBetaFirst is a slip in the order.)  The three tracked channels, and the pinned versions a configuration may
\* name: 1.70.0 is a release upstream has, 1.9.9 one it never had.
ChannelsBetaFirst == <<"beta", "stable", "nightly">>
Channels == <<"stable", "beta", "nightly">>
PinnedVersions == {"1.70.0", "1.9.9"}
MissingVersions == {"1.9.9"}
ChannelNames == Range(Channels) \cup PinnedVersions

\* The manifest of release k of a channel: the package rust for one platform.
ReleaseOf(ch, k) ==
    [date |-> DateOf(k),
     pkg |-> <<PkgEntry("rust",
                 <<[name |-> LinuxGnu,
                    target |-> TargetOf(TRUE, <<TargetUrls(DateOf(k),
                                   "rust-" \o ch \o "-" \o LinuxGnu)>>)]>>)>>]

\* Path::join
Join(dir, name) == dir \o "/" \o name

\* get_channel_history(path, channel): the ledger, empty when the file does
\* not exist.
get_channel_history(l, ch) == IF ch \in DOMAIN l THEN l[ch] ELSE <<>>

\* The order `dates.sort()` puts the dates of the releases in.
DateKey(d) == CHOOSE k \in 1 .. NumReleases : DateOf(k) = d

RECURSIVE TakeLatest(_, _)
\* sort, reverse, truncate(m): the m greatest dates, greatest first.
TakeLatest(dates, m) ==
    IF m = 0 \/ dates = {} THEN <<>>
    ELSE LET top == CHOOSE d \in dates : \A e \in dates : DateKey(e) <= DateKey(d)
         IN  <<top>> \o TakeLatest(dates \ {top}, m - 1)

\* A slip: no reverse, the m least dates are taken.
latest_dates_oldest(versions, m) ==
    LET all == TakeLatest(DOMAIN versions, Cardinality(DOMAIN versions))
    IN  SubSeq(all, Len(all) - (IF m < Len(all) THEN m ELSE Len(all)) + 1, Len(all))

\* latest_dates_from_channel_history(channel_history, versions)
latest_dates_from_channel_history(versions, m) == TakeLatest(DOMAIN versions, m)

\* clean_old_files: what one ledger adds to files_to_keep, m dates being kept.
KeepFrom(h, m) ==
    LET versions == IF h = <<>> THEN <<>> ELSE h[1]
        latest_dates == latest_dates_from_channel_history(versions, m)
    IN  UNION {Range(versions[d]) : d \in Range(latest_dates)}

\* A slip: the block of beta is missing.
KeepOfChannelSkipsBeta(l, ch, count) ==
    IF count = NoCount \/ ch = "beta" THEN {} ELSE KeepFrom(get_channel_history(l, ch), count[1])

\* clean_old_files: `if let Some(s) = keep_...` for one of the three channels.
KeepOfChannel(l, ch, count) ==
    IF count = NoCount THEN {} ELSE KeepFrom(get_channel_history(l, ch), count[1])

\* A slip: the loop over the pinned versions is missing.
files_to_keep_tracked(l, keep_stables, keep_betas, keep_nightlies, pinned) ==
    KeepOfChannel(l, "stable", keep_stables)
    \cup KeepOfChannel(l, "beta", keep_betas)
    \cup KeepOfChannel(l, "nightly", keep_nightlies)

\* clean_old_files: files_to_keep once the four blocks have run.
files_to_keep(l, keep_stables, keep_betas, keep_nightlies, pinned) ==
    KeepOfChannel(l, "stable", keep_stables)
    \cup KeepOfChannel(l, "beta", keep_betas)
    \cup KeepOfChannel(l, "nightly", keep_nightlies)
    \cup UNION {KeepFrom(get_channel_history(l, pinned[i]), 1) : i \in DOMAIN pinned}

\* The names the entries below dist/ bear: the manifests with their staging
\* files and sidecars, the directories of the dates, and in these the
\* artifacts and their staging files.
ArtifactNames ==
    UNION {LET urls == TargetUrls(DateOf(1), "rust-" \o ch \o "-" \o LinuxGnu)
           IN  {urls.url[Len(urls.url)], urls.xz_url[Len(urls.xz_url)]} : ch \in ChannelNames}
ManifestNames == {"channel-rust-" \o ch \o ".toml" : ch \in ChannelNames}
DistFiles ==
    {Join("dist", m) : m \in ManifestNames}
    \cup {Join("dist", append_to_path(m, suffix)) :
            m \in ManifestNames, suffix \in {".part", ".sha256", ".part.sha256"}}
DistDirs == {Join("dist", DateOf(k)) : k \in 1 .. NumReleases}
DistWalk ==
    {Join(dir, name) : dir \in DistDirs,
                       name \in ArtifactNames \cup {append_to_path(a, ".part") : a \in ArtifactNames}}

\* fs::read_dir(dist_path) fails: there is no dist/.
NoDist(f) == \A p \in DOMAIN f : p \notin DistFiles /\ p \notin DistWalk

\* A slip: the entries of dist/ itself are walked too.
WalkedFilesFlat(f) == {p \in DOMAIN f : p \in DistWalk \/ p \in DistFiles}

\* clean_old_files: the walk of dist/*/*: the entries of the directories
\* among the entries of dist/.
WalkedFiles(f) == {p \in DOMAIN f : p \in DistWalk}

\* clean_old_files: the test of each walked path against files_to_keep.
files_to_delete(f, keep) == {p \in WalkedFiles(f) : p \notin keep}

\* fs::remove_file on each path of a set.
RemoveFiles(f, paths) == [q \in DOMAIN f \ paths |-> f[q]]

\* clean_old_files(path, keep_stables, keep_betas, keep_nightlies,
\* pinned_rust_versions): readOk tells whether the ledgers and dist/ can be
\* read, `stuck` the files fs::remove_file fails on (the failure is logged).
clean_old_files(f, l, keep_stables, keep_betas, keep_nightlies, pinned, readOk, stuck) ==
    LET keep == files_to_keep(l, keep_stables, keep_betas, keep_nightlies, pinned)
        doomed == files_to_delete(f, keep)
    IN  IF ~readOk \/ NoDist(f)
        THEN [fs |-> f, res |-> ErrIo, keep |-> keep, deleted |-> {}, stuck |-> {}]
        ELSE [fs |-> RemoveFiles(f, doomed \ stuck), res |-> Ok, keep |-> keep,
              deleted |-> doomed \ stuck, stuck |-> doomed \cap stuck]


\* ===================================================================
\* sync_rustup_channel as one step, for the driver (src/src/rustup.rs).
\* ===================================================================

\* Every channel name the driver may hand to sync_rustup_channel.
AllChannels == Channels \o <<"1.70.0", "1.9.9">>

\* sync_rustup_channel's channel_path and channel_part_path for a channel.
manifest_path(ch) == Join("dist", "channel-rust-" \o ch \o ".toml")
manifest_part_path(ch) == append_to_path(manifest_path(ch), ".part")

\* The manifest of release k of a channel as upstream serves it, and as
\* toml::from_str decodes it; any other text is a parse error (<<>>).
ManifestBytesOf(ch, k) == <<(CHOOSE i \in DOMAIN AllChannels : AllChannels[i] = ch) + 1, k>>
ParseManifest(bytes) ==
    IF Len(bytes) = 2 /\ bytes[1] - 1 \in DOMAIN AllChannels /\ bytes[2] \in 1 .. NumReleases
    THEN <<ReleaseOf(AllChannels[bytes[1] - 1], bytes[2])>>
    ELSE <<>>

\* The 404 page read as a text by download_string: its first 64 characters
\* are the digest of nothing upstream serves.
NotFoundText == <<Sha256New, 1>>

\* The paths of a list of (relative path, hash) pairs.
PathsOf(fileList) == {fileList[k][1] : k \in DOMAIN fileList}

RECURSIVE RunBatch(_, _, _, _, _)
\* The batch of sync_rustup_channel, one task after the other: each runs
\* sync_one_rustup_target and on an error adds one to errors_occurred.
\* fates[path] is what the attempts on that path meet; acc is the file
\* system, the failure counter and the paths asked upstream for so far.
\* (`x \in {e}` names the value of e.)
RunBatch(fileList, budget, fates, k, acc) ==
    IF k > Len(fileList) THEN acc
    ELSE LET path == fileList[k][1]
             after(got) ==
                [fs |-> got.fs,
                 errors |-> IF is_err(got.res) THEN acc.errors + 1 ELSE acc.errors,
                 fetched |-> IF SkipsDownload(acc.fs, path, FALSE) THEN acc.fetched
                             ELSE acc.fetched \cup {path}]
         IN  CHOOSE r \in {RunBatch(fileList, budget, fates, k + 1, next) :
                            next \in {after(got) :
                                got \in {sync_one_rustup_target(acc.fs, path, fileList[k][2],
                                                                budget, fates[path])}}} : TRUE

\* What a channel sync returns to the driver: the mirror it leaves, its
\* result, and the artifact paths it asked upstream for.
SyncReturn(f, l, r, asked) == [fs |-> f, ledgers |-> l, res |-> r, fetched |-> asked]

\* sync_rustup_channel(path, source, threads, prefix, channel, retries,
\* download_dev, platforms): `sidecar` and `attempts` are what upstream answers
\* for the manifest, `fates` for the artifacts.
sync_rustup_channel(f, l, ch, budget, dev, plats, sidecar, attempts, fates) ==
    LET sha256_from_path == append_to_path(manifest_part_path(ch), ".sha256")
        sha256_to_path == append_to_path(manifest_path(ch), ".sha256")
        \* add_to_channel_history, then move_if_exists_with_sha256
        publish(batch, list) ==
            SyncReturn(
                move_if_exists(move_if_exists(batch.fs, sha256_from_path, sha256_to_path),
                               manifest_part_path(ch), manifest_path(ch)),
                [c \in DOMAIN l \cup {ch} |->
                    IF c = ch
                    THEN add_to_channel_history(get_channel_history(l, ch), list.date, list.files)
                    ELSE l[c]],
                SyncOk, batch.fetched)
        \* the batch, and the test on the failure counter
        fetch(staged, list) ==
            CHOOSE r \in
                {IF ~BatchSucceeded(batch.errors)
                 THEN SyncReturn(batch.fs, l, FailedDownloads(batch.errors), batch.fetched)
                 ELSE publish(batch, list) :
                    batch \in {RunBatch(list.files, budget, fates, 1,
                                        [fs |-> staged.fs, errors |-> 0, fetched |-> {}])}} : TRUE
        \* rustup_download_list on the staged manifest
        open(staged) ==
            CHOOSE r \in
                {IF parsed = <<>> THEN SyncReturn(staged.fs, l, SyncErr("Parse"), {})
                 ELSE CHOOSE q \in {fetch(staged, list) :
                                      list \in {rustup_download_list(parsed[1], dev, plats)}} : TRUE :
                    parsed \in {ParseManifest(staged.fs[manifest_part_path(ch)])}} : TRUE
    IN  CHOOSE r \in
            {IF staged.res # Ok THEN SyncReturn(staged.fs, l, SyncErr(staged.res), {})
             ELSE open(staged) :
                staged \in {download_with_sha256_file(f, manifest_part_path(ch), budget, TRUE,
                                                      sidecar, attempts, TRUE)}} : TRUE

\* ===================================================================
\* The installer synchronizer: sync_one_init and sync_rustup_init
\* (src/src/rustup.rs).
\* ===================================================================

AppleDarwin == "x86_64-apple-darwin"

\* The release pointer upstream serves, the version it names, and the
\* installer binary of every platform.
ReleaseBody == <<1, 0>>
RustupVersion == "1.26.0"
InstallerBody == <<1, 0, 1>>

\* A text upstream may serve in the pointer's place that is not a release
\* pointer: toml::from_str fails on it.
MalformedPointer == <<0, 0>>
Pointers == {ReleaseBody, MalformedPointer}

\* Invocations of sync_rustup_init on one mirror, one after the other.
MaxInitRuns == 2

release_path == "rustup/release-stable.toml"
release_part_path == append_to_path(release_path, ".part")

\* get_rustup_version(path): the version, or <<>> when the file cannot be
\* read or is not a release pointer.
get_rustup_version(f, path) ==
    IF Exists(f, path) /\ f[path] = ReleaseBody THEN <<RustupVersion>> ELSE <<>>

\* sync_one_init: local_path and archive_path.
init_name(is_exe) == IF is_exe THEN "rustup-init.exe" ELSE "rustup-init"
init_local_path(ver, platform, is_exe) ==
    Join(Join(Join(Join("rustup", "archive"), ver), platform), init_name(is_exe))
init_archive_path(platform, is_exe) ==
    Join(Join("rustup/dist", platform), init_name(is_exe))

\* copy_file_create_dir_with_sha256(from, to): the file and its sidecar are
\* copied.
copy_file_create_dir_with_sha256(f, from, to) ==
    LET copied == WriteFile(f, to, f[from])
        sha256_from == append_to_path(from, ".sha256")
    IN  IF Exists(f, sha256_from)
        THEN WriteFile(copied, append_to_path(to, ".sha256"), f[sha256_from])
        ELSE copied

\* download_with_sha256_file reaches download, and download its loop: the
\* body is asked upstream for.
AsksBody(f, path, force, sidecar) ==
    /\ sidecar # <<>>
    /\ ~SidecarPanics(sidecar[1])
    /\ ~SkipsDownload(f, path, force)

\* sync_one_init(path, source, platform, is_exe, rustup_version, retries):
\* `sidecar` and `attempts` are what upstream answers, copyOk whether the copy
\* succeeds.
sync_one_init(f, platform, is_exe, ver, budget, sidecar, attempts, copyOk) ==
    LET local_path == init_local_path(ver, platform, is_exe)
    IN  CHOOSE r \in
            {IF got.res # Ok THEN got
             ELSE IF ~copyOk THEN Returns(got.fs, ErrIo)
             ELSE Returns(copy_file_create_dir_with_sha256(got.fs, local_path,
                              init_archive_path(platform, is_exe)), Ok) :
                got \in {download_with_sha256_file(f, local_path, budget, FALSE, sidecar,
                                                   attempts, TRUE)}} : TRUE

\* The variant sync_rustup_init matches on; download never builds it.
ErrNotFound == "NotFound"

\* sync_rustup_init: the task's `match e`: NotFound is passed over, any other
\* error adds one to errors_occurred.
CountsError(e) == is_err(e) /\ e # ErrNotFound

\* What upstream answers for the installer of a platform: its sidecar.
InitSidecar(platform, offers, breaks) ==
    IF platform \in breaks THEN <<>>
    ELSE IF platform \notin offers THEN <<NotFoundText>>
    ELSE <<SidecarText(Sha256Of(InstallerBody))>>

\* What upstream answers for the installer of a platform: each GET of the file.
InitAttempts(platform, offers, budget) ==
    [k \in 1 .. budget + 1 |->
        Attempt(TRUE, TRUE, IF platform \in offers THEN InstallerBody ELSE NotFoundPage,
                TRUE, TRUE)]

\* The platforms of the matrix, in the order the tasks are submitted.
RECURSIVE InOrder(_)
InOrder(names) ==
    IF names = {} THEN <<>>
    ELSE LET first == CHOOSE x \in names : TRUE
         IN  <<first>> \o InOrder(names \ {first})
InitOrder(plats) == InOrder(plats.unix) \o InOrder(plats.windows)

RECURSIVE RunInits(_, _, _, _, _, _, _, _)
\* The batch of sync_rustup_init, one task after the other.
RunInits(order, plats, ver, budget, offers, breaks, k, acc) ==
    IF k > Len(order) THEN acc
    ELSE LET platform == order[k]
             is_exe == platform \in plats.windows
             sidecar == InitSidecar(platform, offers, breaks)
             local_path == init_local_path(ver, platform, is_exe)
             after(got) ==
                [fs |-> got.fs,
                 errors |-> IF CountsError(got.res) THEN acc.errors + 1 ELSE acc.errors,
                 fetched |-> IF AsksBody(acc.fs, local_path, FALSE, sidecar)
                             THEN acc.fetched \cup {local_path} ELSE acc.fetched]
         IN  CHOOSE r \in {RunInits(order, plats, ver, budget, offers, breaks, k + 1, next) :
                            next \in {after(got) :
                                got \in {sync_one_init(acc.fs, platform, is_exe, ver, budget,
                                             sidecar, InitAttempts(platform, offers, budget),
                                             TRUE)}}} : TRUE

\* sync_rustup_init(path, source, prefix, threads, retries, platforms):
\* `pointer` is what the attempts on the release pointer meet.
sync_rustup_init(f, budget, plats, pointer, offers, breaks) ==
    LET batch(got, ver) ==
            CHOOSE r \in
                {[fs |-> b.fs,
                  res |-> IF b.errors = 0 THEN SyncOk ELSE FailedDownloads(b.errors),
                  fetched |-> b.fetched] :
                    b \in {RunInits(InitOrder(plats), plats, ver, budget, offers, breaks, 1,
                                    [fs |-> move_if_exists(got.fs, release_part_path, release_path),
                                     errors |-> 0, fetched |-> {}])}} : TRUE
        start(got) ==
            CHOOSE r \in
                {IF rustup_version = <<>>
                 THEN [fs |-> got.fs, res |-> SyncErr("Parse"), fetched |-> {}]
                 ELSE batch(got, rustup_version[1]) :
                    rustup_version \in {get_rustup_version(got.fs, release_part_path)}} : TRUE
    IN  CHOOSE r \in
            {IF got.res # Ok THEN [fs |-> got.fs, res |-> SyncErr(got.res), fetched |-> {}]
             ELSE start(got) :
                got \in {download(f, release_part_path, NoHash, budget, FALSE, pointer)}} : TRUE

\* ===================================================================
\* The driver: sync, one run of the mirror after the other, upstream
\* moving on between them (src/src/rustup.rs).
\* ===================================================================

\* Runs of the driver, one after the other.
MaxRuns == 2

\* The retention counts and the pinned version lists tried.
Counts == {NoCount, Some(0), Some(1)}
PinnedLists == {<<>>, <<"1.70.0">>, <<"1.9.9", "1.70.0">>}
Configs ==
    {[keep_latest_stables |-> s, keep_latest_betas |-> b, keep_latest_nightlies |-> t,
      pinned_rust_versions |-> p] : s \in Counts, b \in Counts, t \in Counts, p \in PinnedLists}

\* The retention count of one of the three channels.
CountOf(c, ch) ==
    CASE ch = "stable" -> c.keep_latest_stables
      [] ch = "beta" -> c.keep_latest_betas
      [] ch = "nightly" -> c.keep_latest_nightlies

\* A slip: the channel is synced whatever its count.
SyncsChannelAlways(c, ch) == TRUE

\* sync: `if rustup.keep_latest_... != Some(0)`
SyncsChannel(c, ch) == CountOf(c, ch) # Some(0)

\* What upstream fails to serve during a run: nothing, or what one step of
\* the run asks for: the installers, or an artifact of one channel.
NoOutage == None
Outages(c) ==
    {NoOutage, "init"}
    \cup {ch \in Range(Channels) : SyncsChannel(c, ch)}
    \cup (Range(c.pinned_rust_versions) \ MissingVersions)

\* The release of a channel upstream publishes: a pinned version is one
\* release for good.
ReleaseIndex(ch, up) == IF ch \in PinnedVersions THEN 1 ELSE up

\* What upstream answers for the manifest of a channel: its sidecar, and
\* each GET of the manifest.
ChannelSidecar(ch, up) ==
    IF ch \in MissingVersions THEN <<NotFoundText>>
    ELSE <<SidecarText(Sha256Of(ManifestBytesOf(ch, ReleaseIndex(ch, up))))>>
ChannelAttempts(ch, up, budget) ==
    [k \in 1 .. budget + 1 |->
        Attempt(TRUE, TRUE,
                IF ch \in MissingVersions THEN NotFoundPage
                ELSE ManifestBytesOf(ch, ReleaseIndex(ch, up)),
                TRUE, TRUE)]

\* What upstream answers for the artifacts of a channel: during an outage
\* the stream of the last one ends early at every attempt.
ChannelFates(ch, up, budget, dev, plats, out) ==
    LET list == rustup_download_list(ReleaseOf(ch, ReleaseIndex(ch, up)), dev, plats).files
        down == IF out = ch /\ list # <<>>
                THEN {list[Len(list)][1]} ELSE {}
    IN  [p \in PathsOf(list) |->
            [k \in 1 .. budget + 1 |->
                Attempt(TRUE, TRUE,
                        IF p \in down THEN SubSeq(ArtifactBody, 1, Len(ArtifactBody) - 1)
                        ELSE ArtifactBody,
                        TRUE, TRUE)]]

\* The channel sync of the driver's step for channel ch.
ChannelStep(ch) ==
    CHOOSE r \in
        {sync_rustup_channel(fs, ledgers, ch, retries, download_dev, platforms,
                             sidecar, attempts, fates) :
            sidecar \in {ChannelSidecar(ch, upstream)},
            attempts \in {ChannelAttempts(ch, upstream, retries)},
            fates \in {ChannelFates(ch, upstream, retries, download_dev, platforms, outage)}} : TRUE

\* MirrorError::Config of a pinned version upstream does not have.
ConfigError(v) == "Pinned rust version " \o v \o " could not be found"

\* A slip: the failures of the run are not looked at.
RunsGcDespiteFailures(c, failed) ==
    ~(/\ c.keep_latest_stables = NoCount
      /\ c.keep_latest_betas = NoCount
      /\ c.keep_latest_nightlies = NoCount)

\* sync: clean_old_files is called: not all three retention counts are None
\* and `failures` is false.
RunsGc(c, failed) ==
    /\ ~(/\ c.keep_latest_stables = NoCount
         /\ c.keep_latest_betas = NoCount
         /\ c.keep_latest_nightlies = NoCount)
    /\ ~failed

\* The mirror a run that synced stable at the first release left.
StableMirror ==
    LET plats == [unix |-> {LinuxGnu}, windows |-> {}]
    IN  sync_rustup_channel(<<>>, <<>>, "stable", 0, TRUE, plats,
                            ChannelSidecar("stable", 1), ChannelAttempts("stable", 1, 0),
                            ChannelFates("stable", 1, 0, TRUE, plats, NoOutage))

\* The mirror the driver starts on: an empty one, or, when the retention
\* count of stable is 0, one on which stable was synced before the count
\* was set to 0.
Mirrors(c) ==
    {[fs |-> <<>>, ledgers |-> <<>>]}
    \cup (IF c.keep_latest_stables = Some(0)
          THEN {[fs |-> StableMirror.fs, ledgers |-> StableMirror.ledgers]}
          ELSE {})

DrInit ==
    /\ cfg \in Configs
    /\ \E mirror \in Mirrors(cfg) : fs = mirror.fs /\ ledgers = mirror.ledgers
    /\ retries = MaxRetries
    /\ threads = 1
    /\ download_dev = TRUE
    /\ platforms = [unix |-> {LinuxGnu}, windows |-> {}]
    /\ upstream = 1
    /\ outage \in Outages(cfg)
    /\ dpc = "init"
    /\ pin = 0
    /\ failures = FALSE
    /\ run = 0
    /\ gc = NoGc
    /\ dresult = None
    /\ fetched = {}
    /\ steps = <<>>
    /\ last = NoRun
    /\ history = <<>>
    /\ cpc = "off"
    /\ date = ""
    /\ files = <<>>
    /\ tasks = <<>>
    /\ ends = <<>>
    /\ pb = NoProgress
    /\ errors_occurred = 0
    /\ result = NoResult
    /\ syncs = 0
    /\ pre = [fs |-> <<>>, history |-> <<>>]
    /\ DlIdle
    /\ LiIdle
    /\ InIdle
    /\ IxIdle
    /\ RaIdle

\* What a step of the driver leaves alone.
DrFrame == UNCHANGED <<dlocals, lvars, ivars, rvars, wvars, retries, history, cpc, threads, download_dev,
                       platforms, date, files, tasks, ends, pb, errors_occurred, result, syncs, pre>>

\* The step `name` of the run returned r.
Logged(name, r) == [s \in DOMAIN steps \cup {name} |-> IF s = name THEN r ELSE steps[s]]

\* sync: sync_rustup_init; its error is printed, and `let mut failures = false`.
SyncInit ==
    /\ dpc = "init"
    /\ LET pointer == [k \in 1 .. retries + 1 |-> Attempt(TRUE, TRUE, ReleaseBody, TRUE, TRUE)]
           allPlatforms == platforms.unix \cup platforms.windows
       IN  \E got \in {sync_rustup_init(fs, retries, platforms, pointer, allPlatforms,
                                        IF outage = "init" THEN allPlatforms ELSE {})} :
           /\ fs' = got.fs
           /\ fetched' = fetched \cup got.fetched
           /\ steps' = Logged("init", got.res.kind)
    /\ failures' = FALSE
    /\ dpc' = Channels[1]
    /\ UNCHANGED <<cfg, ledgers, pin, outage, run, gc, dresult, last, upstream>>
    /\ DrFrame

\* sync: the step of stable, beta or nightly: the channel is synced unless
\* its retention count is Some(0); an error sets `failures`.
SyncTracked(i) ==
    /\ dpc = Channels[i]
    /\ IF SyncsChannel(cfg, Channels[i])
       THEN \E got \in {ChannelStep(Channels[i])} :
                /\ fs' = got.fs
                /\ ledgers' = got.ledgers
                /\ fetched' = fetched \cup got.fetched
                /\ failures' = (failures \/ got.res # SyncOk)
                /\ steps' = Logged(Channels[i], got.res.kind)
       ELSE /\ steps' = Logged(Channels[i], "skipped")
            /\ UNCHANGED <<fs, ledgers, fetched, failures>>
    /\ dpc' = IF i < Len(Channels) THEN Channels[i + 1] ELSE "pinned"
    /\ UNCHANGED <<cfg, pin, outage, run, gc, dresult, last, upstream>>
    /\ DrFrame

\* sync: one iteration of the loop over the pinned versions: NotFound
\* returns MirrorError::Config at once, any other error sets `failures`.
SyncPinned ==
    /\ dpc = "pinned"
    /\ pin < Len(cfg.pinned_rust_versions)
    /\ LET v == cfg.pinned_rust_versions[pin + 1]
       IN  \E got \in {ChannelStep(v)} :
           /\ fs' = got.fs
           /\ ledgers' = got.ledgers
           /\ fetched' = fetched \cup got.fetched
           /\ failures' = (failures \/ got.res # SyncOk)
           /\ steps' = Logged(v, got.res.kind)
           /\ IF got.res.kind = ErrNotFound
              THEN dresult' = ConfigError(v) /\ dpc' = "done"
              ELSE UNCHANGED <<dresult, dpc>>
    /\ pin' = pin + 1
    /\ UNCHANGED <<cfg, outage, run, gc, last, upstream>>
    /\ DrFrame

\* sync: the last step: clean_old_files unless it is skipped; its error is
\* printed; Ok(()).
CleanStep ==
    /\ dpc = "pinned"
    /\ pin = Len(cfg.pinned_rust_versions)
    /\ IF RunsGc(cfg, failures)
       THEN \E readOk \in BOOLEAN, stuck \in {{}, WalkedFiles(fs)} :
            \E got \in {clean_old_files(fs, ledgers, cfg.keep_latest_stables,
                                        cfg.keep_latest_betas, cfg.keep_latest_nightlies,
                                        cfg.pinned_rust_versions, readOk, stuck)} :
                   /\ fs' = got.fs
                   /\ gc' = [invoked |-> TRUE, keep |-> got.keep, deleted |-> got.deleted,
                             stuck |-> got.stuck, res |-> got.res]
       ELSE UNCHANGED <<fs, gc>>
    /\ dresult' = Ok
    /\ dpc' = "done"
    /\ UNCHANGED <<cfg, ledgers, pin, failures, outage, run, fetched, steps, last, upstream>>
    /\ DrFrame

\* The mirror is run again; upstream may have published its next release in
\* between.
NextRun ==
    /\ dpc = "done"
    /\ run + 1 < MaxRuns
    /\ run' = run + 1
    /\ last' = [fs |-> fs, upstream |-> upstream, steps |-> steps]
    /\ upstream' \in {upstream, IF upstream < NumReleases THEN upstream + 1 ELSE upstream}
    /\ outage' \in Outages(cfg)
    /\ dpc' = "init"
    /\ pin' = 0
    /\ failures' = FALSE
    /\ gc' = NoGc
    /\ dresult' = None
    /\ fetched' = {}
    /\ steps' = <<>>
    /\ UNCHANGED <<fs, cfg, ledgers>>
    /\ DrFrame

DrNext ==
    \/ SyncInit
    \/ \E i \in DOMAIN Channels : SyncTracked(i)
    \/ SyncPinned
    \/ CleanStep
    \/ NextRun

SpecDriver == DrInit /\ [][DrNext]_vars


\* The paths a ledger lists under any date.
LedgerPaths(h) ==
    IF h = <<>> THEN {} ELSE UNION {Range(h[1][d]) : d \in DOMAIN h[1]}

\* The paths a ledger lists under its m greatest dates.
PathsOfGreatest(h, m) ==
    IF h = <<>> THEN {}
    ELSE UNION {Range(h[1][d]) :
                  d \in {e \in DOMAIN h[1] :
                           Cardinality({g \in DOMAIN h[1] : DateKey(g) > DateKey(e)}) < m}}

\* The keep-set of the configuration over the ledgers as they are.
KeepSet ==
    UNION {PathsOfGreatest(get_channel_history(ledgers, Channels[i]), CountOf(cfg, Channels[i])[1]) :
             i \in {j \in DOMAIN Channels : CountOf(cfg, Channels[j]) # NoCount}}
    \cup UNION {PathsOfGreatest(get_channel_history(ledgers, cfg.pinned_rust_versions[i]), 1) :
                  i \in DOMAIN cfg.pinned_rust_versions}

\* The GC of the run has run to its end, every deletion succeeding.
GcCompleted == dpc = "done" /\ gc.invoked /\ gc.res = Ok /\ gc.stuck = {}

\* C11: a GC run whose deletions all succeed removes every file at
\* dist/<subdir>/<file> whose path is not in the keep-set (the paths under the
\* N greatest ledger dates of each channel with a retention count N, and under
\* the greatest date of each pinned version), and removes no file in it.
C11_GcDeletesComplement ==
    GcCompleted =>
        /\ \A p \in DistWalk : p \in DOMAIN fs => p \in KeepSet
        /\ gc.deleted \cap KeepSet = {}
        /\ gc.deleted \subseteq DistWalk

\* A GC has kept the files of the latest date and deleted those of an older one.
C11_Witness ==
    /\ GcCompleted
    /\ cfg.keep_latest_stables = Some(1)
    /\ gc.deleted \cap LedgerPaths(get_channel_history(ledgers, "stable")) # {}
    /\ KeepSet \cap DOMAIN fs # {}

\* C12: a GC run deletes no file listed in the ledger of a channel whose
\* retention count is absent.
C12_AbsentCountProtects ==
    (dpc = "done" /\ gc.invoked) =>
        \A i \in DOMAIN Channels :
            CountOf(cfg, Channels[i]) = NoCount =>
                gc.deleted \cap LedgerPaths(get_channel_history(ledgers, Channels[i])) = {}

\* Some retention count is present.
AnyCount == \E i \in DOMAIN Channels : CountOf(cfg, Channels[i]) # NoCount

\* No channel sync of a run whose steps are `log` returned an error.
NoSyncFailed(log) == \A s \in DOMAIN log \ {"init"} : log[s] \in {Ok, "skipped"}

\* C13: in a run of the driver clean_old_files is invoked if and only if some
\* retention count is present and no channel sync of the run returned an
\* error; when one did, the run deletes no file.
C13_GcSkipRules ==
    dpc = "done" =>
        /\ gc.invoked <=> (AnyCount /\ NoSyncFailed(steps))
        /\ ~NoSyncFailed(steps) => gc = NoGc

\* A run with a retention count in which a channel sync failed has ended.
C13_Witness ==
    /\ dpc = "done"
    /\ AnyCount
    /\ ~NoSyncFailed(steps)
    /\ steps["init"] = Ok
    /\ WalkedFiles(fs) # {}

\* C14: when upstream answers 404 for the manifest of a pinned version, the
\* driver returns the configuration error naming the version at once: no
\* later pinned version is synced and no GC runs.
C14_PinnedNotFoundAborts ==
    \A i \in DOMAIN cfg.pinned_rust_versions :
        LET v == cfg.pinned_rust_versions[i]
        IN  (v \in MissingVersions /\ v \in DOMAIN steps) =>
                /\ dpc = "done"
                /\ dresult = ConfigError(v)
                /\ ~gc.invoked
                /\ \A j \in DOMAIN cfg.pinned_rust_versions :
                      j > i => cfg.pinned_rust_versions[j] \notin DOMAIN steps

\* C18: the result of a run in which a channel sync failed differs from the
\* result of a run in which none did.
C18_ExitStatusReportsFailure ==
    (dpc = "done" /\ ~NoSyncFailed(steps)) => dresult # Ok

\* The artifacts and installers a mirror holds.
Holdings(f) ==
    {p \in DOMAIN f : p \in DistWalk \/ p \in {init_local_path(RustupVersion, LinuxGnu, FALSE),
                                               init_archive_path(LinuxGnu, FALSE)}}

\* The previous run went through every step without an error.
LastRunSucceeded ==
    /\ run > 0
    /\ "init" \in DOMAIN last.steps
    /\ \A s \in DOMAIN last.steps : last.steps[s] \in {Ok, "skipped"}

\* C19: a run that follows a fully successful run, upstream being unchanged,
\* asks upstream for the body of no artifact and of no installer, and leaves
\* every artifact as it was.
C19_SecondSyncFetchesNothing ==
    (dpc = "done" /\ LastRunSucceeded /\ last.upstream = upstream) =>
        /\ fetched = {}
        /\ \A p \in Holdings(last.fs) : p \in DOMAIN fs /\ fs[p] = last.fs[p]

\* The retention count of each of the three channels is at least the number
\* of dates in its ledger.
UnboundedRetention ==
    \A i \in DOMAIN Channels :
        /\ CountOf(cfg, Channels[i]) # NoCount
        /\ LET h == get_channel_history(ledgers, Channels[i])
           IN  h # <<>> => Cardinality(DOMAIN h[1]) <= CountOf(cfg, Channels[i])[1]

\* C20, as claimed: a GC run whose three retention counts are each at least
\* the number of dates in the ledger deletes no file.
C20_UnboundedDeletesNothing ==
    (dpc = "done" /\ gc.invoked /\ UnboundedRetention) => gc.deleted = {}

\* C20, amended: a GC run whose three retention counts are each at least the
\* number of dates in the ledger deletes no file that one of the three ledgers
\* lists (it deletes the files below dist/ that no ledger lists, such as
\* those a failed sync of an earlier release left).
C20_UnboundedKeepsLedgers ==
    (dpc = "done" /\ gc.invoked /\ UnboundedRetention) =>
        \A i \in DOMAIN Channels :
            gc.deleted \cap LedgerPaths(get_channel_history(ledgers, Channels[i])) = {}

\* Such a GC has deleted what a failed sync left and kept what the ledgers list.
C20_Witness ==
    /\ dpc = "done"
    /\ gc.invoked
    /\ UnboundedRetention
    /\ gc.res = Ok
    /\ gc.deleted # {}
    /\ \E i \in DOMAIN Channels :
          LedgerPaths(get_channel_history(ledgers, Channels[i])) \cap DOMAIN fs # {}


\* ===================================================================
\* sync_rustup_init, step by step, the tasks running on the pool
\* (src/src/rustup.rs).
\* ===================================================================

\* The platform matrices the installer sync is run on.
InitPlatforms ==
    {[unix |-> u, windows |-> w] : u \in SUBSET {LinuxGnu, AppleDarwin},
                                   w \in SUBSET {WindowsMsvc}}

InInit ==
    /\ fs = <<>>
    /\ platforms \in InitPlatforms
    /\ offered \in SUBSET (platforms.unix \cup platforms.windows)
    /\ broken \in SUBSET (platforms.unix \cup platforms.windows)
    /\ retries \in 0 .. MaxRetries
    /\ threads \in 1 .. MaxThreads
    /\ ipc = "release"
    /\ itasks = <<>>
    /\ ierrors = 0
    /\ iresult = NoResult
    /\ version = ""
    /\ iruns = 0
    /\ ipointer \in Pointers
    /\ igot = FALSE
    /\ history = <<>>
    /\ cpc = "off"
    /\ upstream = 0
    /\ download_dev = FALSE
    /\ date = ""
    /\ files = <<>>
    /\ tasks = <<>>
    /\ ends = <<>>
    /\ pb = NoProgress
    /\ errors_occurred = 0
    /\ result = NoResult
    /\ syncs = 0
    /\ pre = [fs |-> <<>>, history |-> <<>>]
    /\ DlIdle
    /\ LiIdle
    /\ DrIdle
    /\ IxIdle
    /\ RaIdle

\* What a step of the installer sync leaves alone.
InFrame == UNCHANGED <<dlocals, cvars, lvars, gvars, rvars, wvars, retries, offered, broken>>

\* sync_rustup_init returns r.
InitReturns(r) == ipc' = "returned" /\ iresult' = r

\* The release pointer is downloaded to its staging path, read and moved
\* into place; `errors_occurred = AtomicUsize::new(0)`; one task per platform
\* is submitted to the pool.
FetchRelease ==
    /\ ipc = "release"
    /\ igot' = ~SkipsDownload(fs, release_part_path, FALSE)
    /\ \E getOk \in BOOLEAN :
          \E got \in {download(fs, release_part_path, NoHash, retries, FALSE,
                               [k \in 1 .. retries + 1 |->
                                   Attempt(getOk, TRUE, ipointer, TRUE, TRUE)])} :
             IF got.res # Ok
             THEN /\ fs' = got.fs
                  /\ InitReturns(SyncErr(got.res))
                  /\ UNCHANGED <<itasks, version>>
             ELSE \E rustup_version \in {get_rustup_version(got.fs, release_part_path)} :
                     IF rustup_version = <<>>
                     THEN /\ fs' = got.fs
                          /\ InitReturns(SyncErr("Parse"))
                          /\ UNCHANGED <<itasks, version>>
                     ELSE /\ fs' = move_if_exists(got.fs, release_part_path, release_path)
                          /\ version' = rustup_version[1]
                          /\ itasks' = [p \in platforms.unix \cup platforms.windows |-> "queued"]
                          /\ ipc' = "fetching"
                          /\ UNCHANGED iresult
    /\ UNCHANGED <<ierrors, iruns, ipointer>>
    /\ InFrame

\* A worker of the pool takes a queued task.
StartInit(p) ==
    /\ ipc = "fetching"
    /\ itasks[p] = "queued"
    /\ Cardinality({q \in DOMAIN itasks : itasks[q] = "running"}) < threads
    /\ itasks' = [itasks EXCEPT ![p] = "running"]
    /\ UNCHANGED <<fs, ipc, ierrors, iresult, version, iruns, ipointer, igot>>
    /\ InFrame

\* The task's closure: sync_one_init and the `match e` on its error.
RunInit(p) ==
    /\ ipc = "fetching"
    /\ itasks[p] = "running"
    /\ \E got \in {sync_one_init(fs, p, p \in platforms.windows, version, retries,
                                 InitSidecar(p, offered, broken),
                                 InitAttempts(p, offered, retries), TRUE)} :
          /\ fs' = got.fs
          /\ ierrors' = IF CountsError(got.res) THEN ierrors + 1 ELSE ierrors
    /\ itasks' = [itasks EXCEPT ![p] = "done"]
    /\ UNCHANGED <<ipc, iresult, version, iruns, ipointer, igot>>
    /\ InFrame

\* The pool's scope ends when every task has terminated; the progress bar is
\* joined; `errors_occurred.load(Ordering::Acquire)` and the test on it.
JoinInit ==
    /\ ipc = "fetching"
    /\ \A p \in DOMAIN itasks : itasks[p] = "done"
    /\ InitReturns(IF ierrors = 0 THEN SyncOk ELSE FailedDownloads(ierrors))
    /\ UNCHANGED <<fs, itasks, ierrors, version, iruns, ipointer, igot>>
    /\ InFrame

\* sync_rustup_init is invoked again on the mirror the invocation before
\* left; upstream may serve another text for the pointer by then.
InitAgain ==
    /\ ipc = "returned"
    /\ iruns + 1 < MaxInitRuns
    /\ iruns' = iruns + 1
    /\ ipointer' \in Pointers
    /\ igot' = FALSE
    /\ ipc' = "release"
    /\ itasks' = <<>>
    /\ ierrors' = 0
    /\ iresult' = NoResult
    /\ version' = ""
    /\ UNCHANGED fs
    /\ InFrame

InNext ==
    \/ FetchRelease
    \/ \E p \in DOMAIN itasks : StartInit(p)
    \/ \E p \in DOMAIN itasks : RunInit(p)
    \/ JoinInit
    \/ InitAgain

SpecInit == InInit /\ [][InNext]_vars

\* The platforms of the batch upstream has no installer for (it answers 404),
\* and those whose installer it fails to serve.
NotOffered == {p \in DOMAIN itasks : p \notin offered /\ p \notin broken}
Failing == {p \in DOMAIN itasks : p \in broken}

\* C15: when the batch of sync_rustup_init has run, the failure counter is
\* the number of platforms whose fetch ended in an error other than a 404
\* (a platform upstream answers 404 for adds nothing), and the result is
\* FailedDownloads with that count when it is not zero, success otherwise.
C15_InitFailureAccounting ==
    (ipc = "returned" /\ version # "") =>
        /\ ierrors = Cardinality(Failing)
        /\ iresult = IF Cardinality(Failing) = 0 THEN SyncOk
                     ELSE FailedDownloads(Cardinality(Failing))


\* ===================================================================
\* The crates.io-index synchronizer (src/src/crates_index.rs).  A
\* commit is a record of its parents, its message and its tree; a tree,
\* the index and the working tree are functions from paths to contents.
\* ===================================================================

MaxCommits == 4
MaxIndexOps == 4

refname == "refs/heads/master"
ConfigPath == "config.json"
CratePath == "se/rd/serde"
RewriteMessage == "Rewrite config.json"
UpstreamMessage == "Updating crate"
LocalMessage == "Local change"
GitError == "GitError"
IoError == "Io"

\* crates.base_url: Option<String>.
NoBaseUrl == <<>>
BaseUrls == {"http://panamax.internal/crates", "http://mirror.example/crates"}

\* serde_json::to_vec_pretty(&ConfigJson { dl: base_url, api: base_url }).
ConfigJsonOf(base_url) == "{dl:" \o base_url \o ",api:" \o base_url \o "}"

\* The config.json upstream ships.
UpstreamConfig == "{dl:https://crates.io/api/v1/crates,api:https://crates.io}"

\* The tree of upstream's k-th object: the crate file changes with every
\* commit, one file exists in the first commit only, one in the later ones.
UpstreamTree(k) ==
    IF k = 1
    THEN [q \in {ConfigPath, CratePath, "ol/dc/oldcrate"} |->
             IF q = ConfigPath THEN UpstreamConfig ELSE "v1"]
    ELSE [q \in {ConfigPath, CratePath, "ne/wc/newcrate"} |->
             IF q = ConfigPath THEN UpstreamConfig ELSE "v" \o ToString(k)]

Commit(parents, message, tree) == [parents |-> parents, message |-> message, tree |-> tree]

\* The commits reachable from id, itself included.
RECURSIVE Ancestors(_, _)
Ancestors(cs, id) ==
    IF id = 0 THEN {}
    ELSE {id} \cup UNION {Ancestors(cs, cs[id].parents[i]) : i \in DOMAIN cs[id].parents}

\* The commit HEAD resolves to.
HeadCommit(r) == IF r.head = refname THEN r.master ELSE r.detached

\* A slip: the working tree is written, the index is left as it was.
checkout_head_workdir(r, cs) ==
    LET target == cs[HeadCommit(r)].tree
        untracked == (DOMAIN r.workdir \ DOMAIN r.index) \ DOMAIN target
    IN  [r EXCEPT !.workdir = [q \in DOMAIN target \cup untracked |->
                                  IF q \in DOMAIN target THEN target[q] ELSE r.workdir[q]]]

\* repo.checkout_head(CheckoutBuilder::default().allow_conflicts(true).force()):
\* every path of HEAD's tree is written, every path the index tracks that the
\* tree lacks is removed, the index becomes the tree; untracked files outside
\* the tree stay.
checkout_head(r, cs) ==
    LET target == cs[HeadCommit(r)].tree
        untracked == (DOMAIN r.workdir \ DOMAIN r.index) \ DOMAIN target
    IN  [r EXCEPT !.index = target,
                  !.workdir = [q \in DOMAIN target \cup untracked |->
                                  IF q \in DOMAIN target THEN target[q] ELSE r.workdir[q]]]

\* A slip: master only moves when origin/master descends from it.
fast_forward_only(r, cs, fails) ==
    IF r.origin_master = 0
    THEN [repo |-> r, res |-> GitError]
    ELSE LET moved == IF r.master \in Ancestors(cs, r.origin_master)
                      THEN [r EXCEPT !.master = r.origin_master]
                      ELSE r
             headed == [moved EXCEPT !.head = refname]
         IN  IF fails = "checkout"
             THEN [repo |-> headed, res |-> GitError]
             ELSE [repo |-> checkout_head(headed, cs), res |-> Ok]

\* fast_forward: refs/heads/master is set to (or created at) the commit of
\* refs/remotes/origin/master, HEAD is set to refs/heads/master and HEAD is
\* checked out by force; `fails` names the call that fails, "ok" when none does.
fast_forward(r, cs, fails) ==
    IF r.origin_master = 0
    THEN [repo |-> r, res |-> GitError]
    ELSE LET moved == IF r.master # 0
                      THEN [r EXCEPT !.master = r.origin_master]     \* r.set_target
                      ELSE [r EXCEPT !.master = r.origin_master]     \* repo.reference
             headed == [moved EXCEPT !.head = refname]
         IN  IF fails = "checkout"
             THEN [repo |-> headed, res |-> GitError]
             ELSE [repo |-> checkout_head(headed, cs), res |-> Ok]

\* clone_repository: RepoBuilder::clone of upstream whose master is at tip.
clone_repository(cs, tip) ==
    [git |-> TRUE, origin_master |-> tip, master |-> tip, head |-> refname,
     detached |-> 0, index |-> cs[tip].tree, workdir |-> cs[tip].tree]

\* sync_crates_repo on repository r while upstream's master is at tip.
sync_crates_repo(r, cs, tip, fails) ==
    IF ~r.git
    THEN IF fails = "ok"
         THEN [repo |-> clone_repository(cs, tip), res |-> Ok]
         ELSE [repo |-> r, res |-> GitError]
    ELSE IF fails = "fetch"
         THEN [repo |-> r, res |-> GitError]
         ELSE fast_forward([r EXCEPT !.origin_master = tip], cs, fails)

\* index.add_path(path): the index entry of path is the working tree's file.
add_path(ix, wd, path) == WriteFile(ix, path, wd[path])

\* rewrite_config_json: config.json is written and added to the index, the
\* index is written as a tree and committed on refs/heads/master above the
\* commit master points at.
rewrite_config_json(r, cs, base_url, fails) ==
    IF ~r.git
    THEN [repo |-> r, commits |-> cs, res |-> GitError]
    ELSE IF fails = "write"
    THEN [repo |-> r, commits |-> cs, res |-> IoError]
    ELSE LET wd == WriteFile(r.workdir, ConfigPath, ConfigJsonOf(base_url))
             ix == add_path(r.index, wd, ConfigPath)
             staged == [r EXCEPT !.workdir = wd, !.index = ix]
         IN  IF r.master = 0 \/ fails = "commit"
             THEN [repo |-> staged, commits |-> cs, res |-> GitError]
             ELSE [repo |-> [staged EXCEPT !.master = Len(cs) + 1],
                   commits |-> Append(cs, Commit(<<r.master>>, RewriteMessage, ix)),
                   res |-> Ok]

\* update_crates_config: the rewrite happens only when base_url is set.
update_crates_config(r, cs, base_url, fails) ==
    IF base_url = NoBaseUrl
    THEN [repo |-> r, commits |-> cs, res |-> Ok]
    ELSE rewrite_config_json(r, cs, base_url[1], fails)

IxInit ==
    /\ commits = <<Commit(<<>>, UpstreamMessage, UpstreamTree(1))>>
    /\ utip = 1
    /\ repo = NoRepo
    /\ rlast = NoOp
    /\ rruns = 0
    /\ fs = <<>>
    /\ retries = 0
    /\ DlIdle
    /\ ChIdle
    /\ LiIdle
    /\ DrIdle
    /\ InIdle
    /\ RaIdle

IxFrame == UNCHANGED <<dvars, cvars, lvars, gvars, ivars, wvars>>

\* A local operation that is neither a sync nor a rewrite.
LocalOp == [NoOp EXCEPT !.op = "local"]

\* Upstream's master gets a commit.
UpstreamCommit ==
    /\ Len(commits) < MaxCommits
    /\ commits' = Append(commits, Commit(<<utip>>, UpstreamMessage,
                                         UpstreamTree(Len(commits) + 1)))
    /\ utip' = Len(commits) + 1
    /\ UNCHANGED <<repo, rlast, rruns>>
    /\ IxFrame

\* One run of sync_crates_repo.
SyncIndex ==
    /\ rruns < MaxIndexOps
    /\ \E fails \in {"ok", "fetch", "checkout"} :
          \E got \in {sync_crates_repo(repo, commits, utip, fails)} :
             /\ repo' = got.repo
             /\ rlast' = [op |-> "sync", res |-> got.res, tip |-> utip,
                          had_git |-> repo.git, base_url |-> "", synced |-> FALSE]
    /\ rruns' = rruns + 1
    /\ UNCHANGED <<commits, utip>>
    /\ IxFrame

\* One run of update_crates_config.
UpdateConfig ==
    /\ rruns < MaxIndexOps
    /\ Len(commits) < MaxCommits
    /\ \E base_url \in {NoBaseUrl} \cup {Some(u) : u \in BaseUrls},
          fails \in {"ok", "write", "commit"} :
          \E got \in {update_crates_config(repo, commits, base_url, fails)} :
             /\ repo' = got.repo
             /\ commits' = got.commits
             /\ rlast' = [op |-> "config", res |-> got.res, tip |-> rlast.tip,
                          had_git |-> repo.git,
                          base_url |-> IF base_url = NoBaseUrl THEN "" ELSE base_url[1],
                          synced |-> rlast.op = "sync" /\ rlast.res = Ok]
    /\ rruns' = rruns + 1
    /\ UNCHANGED utip
    /\ IxFrame

\* Somebody commits on the local master.
LocalCommit ==
    /\ repo.git /\ repo.head = refname /\ repo.master # 0
    /\ rruns < MaxIndexOps
    /\ Len(commits) < MaxCommits
    /\ \E tree \in {WriteFile(repo.index, "local.txt", "local")} :
          /\ commits' = Append(commits, Commit(<<repo.master>>, LocalMessage, tree))
          /\ repo' = [repo EXCEPT !.master = Len(commits) + 1,
                                  !.index = tree,
                                  !.workdir = WriteFile(repo.workdir, "local.txt", "local")]
    /\ rlast' = LocalOp
    /\ rruns' = rruns + 1
    /\ UNCHANGED utip
    /\ IxFrame

\* Somebody edits a tracked file, stages a new file, or drops an untracked
\* file into the working tree.
LocalEdit ==
    /\ repo.git
    /\ rruns < MaxIndexOps
    /\ \E kind \in {"edit", "stage", "untracked"} :
          CASE kind = "edit" ->
                  /\ CratePath \in DOMAIN repo.workdir
                  /\ repo.workdir[CratePath] # "edited"
                  /\ repo' = [repo EXCEPT !.workdir = WriteFile(@, CratePath, "edited")]
            [] kind = "stage" ->
                  /\ "staged.txt" \notin DOMAIN repo.index
                  /\ repo' = [repo EXCEPT !.workdir = WriteFile(@, "staged.txt", "staged"),
                                          !.index = WriteFile(@, "staged.txt", "staged")]
            [] kind = "untracked" ->
                  /\ "notes.txt" \notin DOMAIN repo.workdir
                  /\ repo' = [repo EXCEPT !.workdir = WriteFile(@, "notes.txt", "notes")]
    /\ rlast' = LocalOp
    /\ rruns' = rruns + 1
    /\ UNCHANGED <<commits, utip>>
    /\ IxFrame

\* Somebody detaches HEAD, and may delete the local master.
DetachHead ==
    /\ repo.git /\ repo.head = refname /\ repo.master # 0
    /\ rruns < MaxIndexOps
    /\ \E delete \in BOOLEAN :
          repo' = [repo EXCEPT !.head = "", !.detached = repo.master,
                               !.master = IF delete THEN 0 ELSE @]
    /\ rlast' = LocalOp
    /\ rruns' = rruns + 1
    /\ UNCHANGED <<commits, utip>>
    /\ IxFrame

IxNext ==
    \/ UpstreamCommit
    \/ SyncIndex
    \/ UpdateConfig
    \/ LocalCommit
    \/ LocalEdit
    \/ DetachHead

SpecIndex == IxInit /\ [][IxNext]_vars

\* The paths on which two trees differ.
TreeDiff(a, b) ==
    {q \in DOMAIN a \cup DOMAIN b :
        \/ q \notin DOMAIN a
        \/ q \notin DOMAIN b
        \/ a[q] # b[q]}

\* update_crates_config has rewritten config.json right after a successful
\* sync_crates_repo.
Rewritten ==
    /\ rlast.op = "config"
    /\ rlast.res = Ok
    /\ rlast.base_url # ""
    /\ rlast.synced

\* C16: after a successful index sync followed by a successful rewrite, the
\* tip of the local master is a commit with message "Rewrite config.json"
\* whose single parent is the fetched upstream tip and whose tree differs
\* from the parent's only in config.json; no rewrite commit of an earlier
\* run is an ancestor of the tip.
C16_OneRewriteCommit ==
    Rewritten =>
        /\ repo.master # 0
        /\ commits[repo.master].message = RewriteMessage
        /\ commits[repo.master].parents = <<rlast.tip>>
        /\ repo.origin_master = rlast.tip
        /\ TreeDiff(commits[repo.master].tree, commits[rlast.tip].tree) \subseteq {ConfigPath}
        /\ \A a \in Ancestors(commits, rlast.tip) : commits[a].message # RewriteMessage

\* A second rewrite: an earlier run's rewrite commit exists and upstream has
\* moved since.
C16_Witness ==
    /\ Rewritten
    /\ \E a \in 1 .. Len(commits) :
          a # repo.master /\ commits[a].message = RewriteMessage
    /\ rlast.tip # 1

\* sync_crates_repo has just returned Ok.
Synced == rlast.op = "sync" /\ rlast.res = Ok

\* C17: after a successful index sync, refs/heads/master and HEAD point at
\* the tip of origin's master, so every upstream commit is reachable from the
\* local master, whatever local commits or changes there were; when there was
\* no .git, the repository is a clone of upstream.
C17_SyncResetsToUpstream ==
    Synced =>
        /\ repo.git
        /\ repo.origin_master = rlast.tip
        /\ repo.master = rlast.tip
        /\ repo.head = refname
        /\ HeadCommit(repo) = rlast.tip
        /\ Ancestors(commits, rlast.tip) \subseteq Ancestors(commits, repo.master)
        /\ ~rlast.had_git =>
              /\ repo.index = commits[rlast.tip].tree
              /\ repo.workdir = commits[rlast.tip].tree

\* A sync of an existing repository that held a local commit and on which a
\* rewrite commit of an earlier run sat.
C17_Witness ==
    /\ Synced
    /\ rlast.had_git
    /\ \E a \in 1 .. Len(commits) : commits[a].message = LocalMessage
    /\ \E a \in 1 .. Len(commits) : commits[a].message = RewriteMessage


\* The paths the ledger of channel ch lists and no other ledger does.
ListedOnlyIn(l, ch) ==
    LedgerPaths(get_channel_history(l, ch))
    \ UNION {LedgerPaths(l[c]) : c \in DOMAIN l \ {ch}}

\* The driver is at the step of a channel whose retention count is 0.
AtZeroCount == \E i \in DOMAIN Channels : dpc = Channels[i] /\ CountOf(cfg, Channels[i]) = Some(0)

\* C21: the driver's step of a channel whose retention count is 0 runs no
\* sync (nothing is fetched, the mirror and the ledgers stay as they are), and
\* the GC of the same run, when it runs to its end, keeps no path for that
\* channel: every file the channel's ledger alone lists is gone.
C21_ZeroCountSkipsAndFrees ==
    /\ [][AtZeroCount =>
            /\ steps' = Logged(dpc, "skipped")
            /\ fs' = fs /\ ledgers' = ledgers /\ fetched' = fetched]_vars
    /\ [](GcCompleted =>
            \A i \in DOMAIN Channels :
                CountOf(cfg, Channels[i]) = Some(0) =>
                    /\ KeepOfChannel(ledgers, Channels[i], Some(0)) = {}
                    /\ \A p \in ListedOnlyIn(ledgers, Channels[i]) :
                          p \notin gc.keep /\ p \notin DOMAIN fs)

\* A GC has deleted the artifacts of stable, whose count is 0 and whose ledger
\* lists them.
C21_Witness ==
    /\ GcCompleted
    /\ cfg.keep_latest_stables = Some(0)
    /\ steps["stable"] = "skipped"
    /\ ListedOnlyIn(ledgers, "stable") # {}
    /\ ListedOnlyIn(ledgers, "stable") \subseteq gc.deleted


\* The tasks of the batch whose fetch returned an error, and among them those
\* upstream answered 404 for.
FailedTasks == {k \in DOMAIN ends : is_err(ends[k].res)}
GoneTasks == {k \in FailedTasks : ends[k].gone}

\* C22: in the batch of a channel sync a fetch that ends because upstream
\* answers 404 adds nothing to the failure counter, every fetch that ends in
\* another error adds one, and the path of a failed fetch is not in the ledger
\* entry the sync writes.
C22_BatchNotFoundNotCounted ==
    /\ errors_occurred = Cardinality(FailedTasks \ GoneTasks)
    /\ history # pre.history =>
          \A k \in FailedTasks : files[k][1] \notin Range(history[1][date])

\* C23: the failure counter is at every moment the number of terminated tasks
\* whose fetch returned an error, whatever the number of workers and the
\* order of the tasks; it never decreases during the batch, it is read only
\* once every task has terminated, and FailedDownloads carries that number.
C23_CounterNoLostUpdates ==
    /\ [](errors_occurred = Cardinality(FailedTasks))
    /\ [][cpc = "fetching" => errors_occurred' >= errors_occurred]_vars
    /\ [][(cpc = "fetching" /\ cpc' # "fetching") => BatchDone]_vars
    /\ []((cpc = "returned" /\ result.kind = "FailedDownloads") =>
              /\ BatchDone
              /\ result.count = Cardinality(FailedTasks)
              /\ result.count > 0)

\* Two workers ran a batch in which two fetches failed.
C23_Witness ==
    /\ cpc = "returned"
    /\ threads = 2
    /\ result = FailedDownloads(2)
    /\ Cardinality(FailedTasks) = 2


\* The steps of a run in the order sync is written in.
DriverOrder == <<"init", "stable", "beta", "nightly">> \o cfg.pinned_rust_versions

\* The first k steps of DriverOrder, and no other, have returned.
StepsDone(k) == DOMAIN steps = {DriverOrder[j] : j \in 1 .. k}

\* C24: the steps of a run return one after the other in the order stable,
\* beta, nightly, then the pinned versions as listed; the GC is invoked only
\* once the last of them has returned; and the failure of a channel sync keeps
\* no later channel sync of the run from being attempted.
C24_DriverOrder ==
    /\ [](\E k \in 0 .. Len(DriverOrder) : StepsDone(k))
    /\ [][steps' # steps =>
            \/ steps' = <<>>
            \/ \E k \in 1 .. Len(DriverOrder) :
                  StepsDone(k - 1) /\ DOMAIN steps' = DOMAIN steps \cup {DriverOrder[k]}]_vars
    /\ [](gc.invoked => StepsDone(Len(DriverOrder)))
    /\ []((dpc = "done" /\ dresult = Ok) =>
            /\ StepsDone(Len(DriverOrder))
            /\ \A i \in DOMAIN Channels :
                  SyncsChannel(cfg, Channels[i]) => steps[Channels[i]] # "skipped")

\* The sync of stable failed and the syncs of nightly and of a pinned version
\* were run after it.
C24_Witness ==
    /\ dpc = "done"
    /\ steps["stable"] \notin {Ok, "skipped"}
    /\ steps["nightly"] = Ok
    /\ Len(cfg.pinned_rust_versions) = 2
    /\ steps[cfg.pinned_rust_versions[2]] = Ok


\* One channel sync under fair scheduling: the thread of the sync and the
\* workers of the pool keep taking the steps they can take.
SpecChannelLive == ChInit /\ [][ChSteps]_vars /\ WF_vars(ChSteps)

\* C25: under fair scheduling every started channel sync leaves the batch
\* and returns, whatever the pool size and the retry budget; the batch is left
\* only once every submitted task has terminated, and Done is sent on the
\* progress channel only after the Increment of every task, the renderer being
\* joined then.
C25_ChannelSyncTerminates ==
    /\ (cpc \in {"init", "staged", "fetching"}) ~> (cpc = "returned")
    /\ [][(cpc = "fetching" /\ cpc' # "fetching") => BatchDone]_vars
    /\ [][(pb'.done /\ ~pb.done) => (pb.increments = Len(tasks) /\ pb'.joined)]_vars

\* A sync with one worker and a retry budget has been through a batch of
\* several tasks and has returned.
C25_Witness ==
    /\ cpc = "returned"
    /\ threads = 1
    /\ retries > 0
    /\ pb.joined
    /\ pb.increments > 1


\* ===================================================================
\* Two tasks of one batch fetching the same destination, chunk by chunk
\* (src/src/download.rs one_download and download; src/src/rustup.rs
\* rustup_download_list and the batch of sync_rustup_channel).
\* ===================================================================

\* A manifest that lists one artifact under two package names, as upstream
\* does for a renamed component: both entries carry the same URLs.
RaceChannel ==
    [date |-> "2024-01-01",
     pkg |-> <<PkgEntry("rls", <<TargetEntry("rls-preview", "2024-01-01", LinuxGnu, TRUE)>>),
               PkgEntry("rls-preview", <<TargetEntry("rls-preview", "2024-01-01", LinuxGnu, TRUE)>>)>>]

\* rustup_download_list on that manifest: every flat_map output is kept.
RaceFiles ==
    rustup_download_list(RaceChannel, TRUE, [unix |-> {LinuxGnu}, windows |-> {}]).files

\* The tasks of the batch whose destination is that of the first task.
RaceTasks == {k \in DOMAIN RaceFiles : RaceFiles[k][1] = RaceFiles[1][1]}

\* sync_one_rustup_target: `Some(hash)` of such a task.
RaceHash == Some(RaceFiles[1][2])

\* A task before download is entered.
NoWorker ==
    [pc |-> "idle", k |-> 0, res |-> Ok, a |-> Attempt(TRUE, TRUE, <<>>, TRUE, TRUE),
     f |-> 0, off |-> 0, sha256 |-> Sha256New]

\* File::create(path): an existing file is truncated and keeps its inode, a
\* missing one gets a new inode.
FileCreate(l, i, path) ==
    IF path \in DOMAIN l
    THEN [links |-> l, inodes |-> [i EXCEPT ![l[path]] = <<>>], f |-> l[path]]
    ELSE LET fresh == Len(i) + 1
         IN  [links |-> [q \in DOMAIN l \cup {path} |-> IF q = path THEN fresh ELSE l[q]],
              inodes |-> Append(i, <<>>), f |-> fresh]

\* f.write_all(&buf[..byte_count]) at the offset of the handle: a write past
\* the end of the file leaves a hole of zero bytes.
WriteAt(bytes, off, b) ==
    [j \in 1 .. (IF Len(bytes) > off + 1 THEN Len(bytes) ELSE off + 1) |->
        IF j = off + 1 THEN b ELSE IF j <= Len(bytes) THEN bytes[j] ELSE 0]

\* one_download: `append_to_path(path, ".part")`, whichever task runs it.
StagingPath(path, w) == append_to_path(path, ".part")

RaInit ==
    /\ links = <<>>
    /\ inodes = <<>>
    /\ workers = [w \in RaceTasks |-> NoWorker]
    /\ fs = <<>>
    /\ retries \in 0 .. MaxRetries
    /\ DlIdle
    /\ ChIdle
    /\ LiIdle
    /\ DrIdle
    /\ InIdle
    /\ IxIdle

RaFrame == UNCHANGED <<dvars, cvars, lvars, gvars, ivars, rvars>>

\* The iteration of download's loop that task w is in ends with error e.
RaFails(w, e) ==
    workers' = [workers EXCEPT ![w] = [@ EXCEPT !.pc = "loop", !.k = @ + 1, !.res = e, !.f = 0]]

\* download: `if path.exists() && !force_download { Ok(()) }`, else the loop
\* is entered with `res = Ok(())`.
RaStart(w) ==
    /\ workers[w].pc = "idle"
    /\ workers' = [workers EXCEPT ![w].pc =
                      IF DestPath \in DOMAIN links THEN "returned" ELSE "loop"]
    /\ UNCHANGED <<links, inodes>>
    /\ RaFrame

\* download: the loop has run its retries + 1 iterations.
RaLoopEnd(w) ==
    /\ workers[w].pc = "loop"
    /\ ~LoopContinues(workers[w].k, retries)
    /\ workers' = [workers EXCEPT ![w] =
                      [@ EXCEPT !.pc = "returned", !.res = DownloadReturn(@)]]
    /\ UNCHANGED <<links, inodes>>
    /\ RaFrame

\* one_download: `reqwest::get(url)?`, answered with what this attempt meets.
RaGet(w) ==
    /\ workers[w].pc = "loop"
    /\ LoopContinues(workers[w].k, retries)
    /\ \E a \in AttemptsOn(ArtifactBody) :
          IF ~a.get_ok THEN RaFails(w, ErrDownload)
          ELSE workers' = [workers EXCEPT ![w] =
                              [@ EXCEPT !.pc = "create", !.a = a, !.sha256 = Sha256New]]
    /\ UNCHANGED <<links, inodes>>
    /\ RaFrame

\* one_download: `create_file_create_dir(&part_path)?`
RaCreate(w) ==
    /\ workers[w].pc = "create"
    /\ \E made \in {FileCreate(links, inodes, StagingPath(DestPath, w))} :
          /\ links' = made.links
          /\ inodes' = made.inodes
          /\ workers' = [workers EXCEPT ![w] = [@ EXCEPT !.pc = "copy", !.f = made.f, !.off = 0]]
    /\ RaFrame

\* one_download: one turn of the copy loop, `http_res.read`,
\* `sha256.write_all`, `f.write_all`; a chunk is one byte here.
RaCopy(w) ==
    /\ workers[w].pc = "copy"
    /\ workers[w].off < Len(workers[w].a.body)
    /\ \E b \in {workers[w].a.body[workers[w].off + 1]} :
          /\ inodes' = [inodes EXCEPT ![workers[w].f] = WriteAt(@, workers[w].off, b)]
          /\ workers' = [workers EXCEPT ![w] =
                            [@ EXCEPT !.off = @ + 1, !.sha256 = Sha256Write(@, b)]]
    /\ UNCHANGED links
    /\ RaFrame

\* one_download: the read that ends the copy loop, `byte_count == 0` or an
\* error; the handle is dropped.
RaCopyEnd(w) ==
    /\ workers[w].pc = "copy"
    /\ workers[w].off = Len(workers[w].a.body)
    /\ IF ~workers[w].a.read_ok THEN RaFails(w, ErrIo)
       ELSE workers' = [workers EXCEPT ![w] = [@ EXCEPT !.pc = "verify", !.f = 0]]
    /\ UNCHANGED <<links, inodes>>
    /\ RaFrame

\* one_download: `if f_hash == h`, on the digest of the bytes this task read.
RaVerify(w) ==
    /\ workers[w].pc = "verify"
    /\ IF HashMatches(workers[w].sha256, unwrap(RaceHash))
       THEN workers' = [workers EXCEPT ![w].pc = "rename"]
       ELSE RaFails(w, ErrMismatchedHash)
    /\ UNCHANGED <<links, inodes>>
    /\ RaFrame

\* one_download: `move_if_exists(&part_path, &path)?; Ok(())`, after which
\* download's `Ok(_) => break` leaves `res` as it is.
RaRename(w) ==
    /\ workers[w].pc = "rename"
    /\ links' = move_if_exists(links, StagingPath(DestPath, w), DestPath)
    /\ workers' = [workers EXCEPT ![w] =
                      [@ EXCEPT !.pc = "returned", !.res = DownloadReturn(@)]]
    /\ UNCHANGED inodes
    /\ RaFrame

RaNext ==
    \E w \in RaceTasks :
        \/ RaStart(w)
        \/ RaLoopEnd(w)
        \/ RaGet(w)
        \/ RaCreate(w)
        \/ RaCopy(w)
        \/ RaCopyEnd(w)
        \/ RaVerify(w)
        \/ RaRename(w)

SpecRace == RaInit /\ [][RaNext]_vars

\* C26: with two tasks of one batch fetching the same destination, the
\* destination path, whenever it exists, holds bytes whose SHA-256 is the
\* digest the manifest gives for it.
C26_SharedDestinationVerified ==
    DestPath \in DOMAIN links =>
        Sha256Of(inodes[links[DestPath]]) = unwrap(RaceHash)


\* The channels and pinned versions the configuration retains at least one
\* date of.
Retained ==
    {Channels[i] : i \in {j \in DOMAIN Channels :
                            /\ CountOf(cfg, Channels[j]) # NoCount
                            /\ CountOf(cfg, Channels[j])[1] >= 1}}
    \cup Range(cfg.pinned_rust_versions)

\* The manifest of a channel is published.
Published(ch) == Exists(fs, manifest_path(ch))

\* The paths the ledger of a channel lists under the date of the manifest
\* that is published for it.
PublishedPaths(ch) ==
    LET h == get_channel_history(ledgers, ch)
        d == ParseManifest(fs[manifest_path(ch)])[1].date
    IN  IF LedgerHas(h, d) THEN Range(h[1][d]) ELSE {}

\* C27: for a channel whose retention count is at least 1, and for a pinned
\* version, whatever runs of the driver came before (channel syncs that
\* succeeded or failed, with or without GC), when the channel's manifest is
\* published every path the channel's ledger lists under that manifest's date
\* is a file on disk.
C27_PublishedArtifactsSurvive ==
    \A ch \in Retained :
        Published(ch) => \A p \in PublishedPaths(ch) : Exists(fs, p)

\* A second run has published the next release of a retained channel and its
\* GC has removed files of the release before.
C27_Witness ==
    /\ run = 1
    /\ GcCompleted
    /\ gc.deleted # {}
    /\ \E ch \in Retained :
          /\ Published(ch)
          /\ PublishedPaths(ch) # {}
          /\ Cardinality(DOMAIN get_channel_history(ledgers, ch)[1]) = 2


\* C28: every invocation of sync_rustup_init issues a GET for the release
\* pointer and reads the bytes it received: once the pointer has been dealt
\* with the GET was made, and with a well-formed pointer upstream the
\* invocation does not end in a parse error, whatever staged
\* rustup/release-stable.toml.part an earlier invocation left.
C28_ReleasePointerFresh ==
    ipc \in {"fetching", "returned"} =>
        /\ igot
        /\ ipointer = ReleaseBody => iresult # SyncErr("Parse")


\* The step of the driver that is taken is a call of clean_old_files.
GcStep == dpc = "pinned" /\ pin = Len(cfg.pinned_rust_versions) /\ gc'.invoked

\* The path is dist/<subdir>/<entry>: two levels below dist/.
TwoBelowDist(p) ==
    \E k \in 1 .. NumReleases :
        \E entry \in ArtifactNames \cup {append_to_path(a, ".part") : a \in ArtifactNames} :
            p = Join(Join("dist", DateOf(k)), entry)

\* C29: a GC run removes only files at dist/<subdir>/<entry>: every other
\* file (the manifests, sidecars and staging files directly under dist/, and
\* everything under rustup/) is still there with the same bytes afterwards,
\* every file it keeps has the same bytes, no file is created, and the
\* ledgers and crates.io-index are as they were.
C29_GcFrame ==
    [][GcStep =>
          /\ DOMAIN fs' \subseteq DOMAIN fs
          /\ \A p \in DOMAIN fs :
                IF p \in DOMAIN fs' THEN fs'[p] = fs[p] ELSE TwoBelowDist(p)
          /\ ledgers' = ledgers
          /\ repo' = repo]_vars

\* A GC run has removed files below dist/<date>/ while a manifest is
\* published, the release pointer is in rustup/ and an artifact is kept.
C29_Witness ==
    /\ GcCompleted
    /\ gc.deleted # {}
    /\ \E ch \in Range(Channels) : Exists(fs, manifest_path(ch))
    /\ Exists(fs, release_path)
    /\ \E p \in DistWalk : Exists(fs, p)


\* The dates of a ledger.
LedgerDates(h) == IF h = <<>> THEN {} ELSE DOMAIN h[1]

\* The relative paths of the manifest upstream serves for a channel, in the
\* order rustup_download_list gives them.
ManifestPaths(ch) ==
    LET list == rustup_download_list(ReleaseOf(ch, ReleaseIndex(ch, upstream)),
                                     download_dev, platforms)
    IN  [date |-> list.date, paths |-> [k \in DOMAIN list.files |-> list.files[k][1]]]

\* The step that is taken is a sync of the channel that returns Ok.
SyncedOk(ch) == ch \notin DOMAIN steps /\ ch \in DOMAIN steps' /\ steps'[ch] = SyncOk.kind

\* C30: a successful sync of a channel whose manifest is dated D makes the
\* ledger's entry of D the list of the manifest's relative paths; no step of
\* the driver, channel sync or GC, removes a date from a ledger or changes
\* the entry of a date other than the one of the manifest being synced.
C30_LedgerOneDate ==
    [][\A ch \in ChannelNames :
          LET old == get_channel_history(ledgers, ch)
              new == get_channel_history(ledgers', ch)
              now == ManifestPaths(ch)
          IN  /\ LedgerDates(old) \subseteq LedgerDates(new)
              /\ \A d \in LedgerDates(old) : d # now.date \/ ~SyncedOk(ch) => new[1][d] = old[1][d]
              /\ LedgerDates(new) \subseteq LedgerDates(old) \cup {now.date}
              /\ SyncedOk(ch) => LedgerHas(new, now.date) /\ new[1][now.date] = now.paths]_vars

\* A second run has added a second date to a ledger that had one, and its GC
\* has removed files.
C30_Witness ==
    /\ run = 1
    /\ GcCompleted
    /\ gc.deleted # {}
    /\ \E ch \in Range(Channels) :
          /\ ch \in DOMAIN steps
          /\ steps[ch] = SyncOk.kind
          /\ Cardinality(LedgerDates(get_channel_history(ledgers, ch))) = 2
          /\ \A d \in LedgerDates(get_channel_history(ledgers, ch)) :
                get_channel_history(ledgers, ch)[1][d] # <<>>

====
